---- MODULE Spec2Model ----
(***************************************************************************)
(* HaruTrader: the strategy signal-generation and backtest engine.         *)
(*                                                                         *)
(*   SpecBacktest  the bar-by-bar simulator of                             *)
(*                 MeanReversionSwinglineStrategy.backtest, run over a     *)
(*                 signals frame (the frame generate_signals returns, read *)
(*                 one row per loop iteration);                            *)
(*   SpecSwing     the sequential scan of Indicators.swingline;            *)
(*   SpecSignal    Indicators.average_daily_range and                      *)
(*                 MeanReversionSwinglineStrategy.generate_signals over a  *)
(*                 loaded price frame;                                     *)
(*   SpecRule      the signal loop of generate_signals over a frame that   *)
(*                 carries the columns the loop reads;                     *)
(*   SpecCalls     one call of _calculate_sl_tp or of a RiskManagement     *)
(*                 helper;                                                 *)
(*   SpecParams    Strategy.update_parameters with a concurrent reader of  *)
(*                 the parameter dict;                                     *)
(*   SpecScreen    Screener.screen with its pool of per-symbol tasks;      *)
(*   SpecRun       Strategy.activate, deactivate and run over a market     *)
(*                 data dict and a snapshot of the open positions;         *)
(*   SpecMarketData  MarketData.update of a stored price series;           *)
(*   SpecTrail     RiskManagement.calculate_trailing_stop called along a   *)
(*                 price path.                                             *)
(*                                                                         *)
(* Prices are integers.  A percentage P&L (exit - entry) / entry * 100 is  *)
(* kept exactly as the integer P&L * PnlScale, PnlScale being a common     *)
(* multiple of every possible entry price.                                 *)
(***************************************************************************)
EXTENDS Integers, Sequences, FiniteSets, TLC

\* ------------------------------------------------------------------ bounds
MaxPrice == 2        \* prices of the simulated frame are 1..MaxPrice
MaxBars  == 3        \* a frame has 1..MaxBars rows
MaxSwingPrice == 4   \* prices of the frame the swingline scans are 1..MaxSwingPrice
MaxPeriod == 2       \* the ADR period is 1..MaxPeriod
MaxRuleRows == 6     \* the frame the signal loop scans has 1..MaxRuleRows rows
MaxAdrSum == 2       \* an ADR is a mean with the sum of ranges 0..MaxAdrSum
MaxRatio == 3        \* a risk:reward ratio is 1..MaxRatio
MaxBalance == 3      \* an account balance is 0..MaxBalance
MaxRiskPct == 3      \* a risk per trade is 1..MaxRiskPct percent
MaxContract == 2     \* a contract size is 0..MaxContract
MaxLot == 3          \* a lot size, lot bound or lot step is at most MaxLot
MaxUpdates == 2      \* update_parameters is called at most MaxUpdates times
MaxSymbols == 2      \* a screen or a strategy runs over the symbols 1..MaxSymbols
MaxOpen == 2         \* a symbol has 0..MaxOpen open positions, a limit is 1..MaxOpen
MaxTimestamp == 2    \* the timestamps of a price series are 1..MaxTimestamp
MaxBatch == 3        \* a frame handed to MarketData.update has 0..MaxBatch rows
MaxTrailPrice == 3   \* the prices a trailing stop follows are 1..MaxTrailPrice
MaxTrailDist == 2    \* a trailing distance is 0..MaxTrailDist half price units
MaxTrailCalls == 3   \* calculate_trailing_stop is called at most MaxTrailCalls times

\* ------------------------------------------------------ strategy parameters
RangeThreshold == 70      \* default_parameters['range_threshold']
SwinglineLookback == 3    \* default_parameters['swingline_lookback']

\* ------------------------------------------------------------- value model
\* Missing values are numbers outside the price range, so that a price column
\* holds values of one kind.
NaN  == -1           \* np.nan, the value pd.isna tests for
None == -2           \* Python None

Prices == 1..MaxPrice

RECURSIVE Gcd(_, _)
Gcd(a, b) == IF b = 0 THEN a ELSE Gcd(b, a % b)

RECURSIVE LcmUpTo(_)
LcmUpTo(m) == IF m <= 1 THEN 1
              ELSE LET l == LcmUpTo(m - 1) IN (l * m) \div Gcd(l, m)

PnlScale == LcmUpTo(MaxPrice)

\* OHLC bars obeying the PriceBar invariant of the data model
BarsOver(P) == {b \in [Open : P, High : P, Low : P, Close : P] :
                   /\ b.Low <= b.Open /\ b.Low <= b.Close
                   /\ b.Open <= b.High /\ b.Close <= b.High}

Bars == BarsOver(Prices)

SwingBars == BarsOver(1..MaxSwingPrice)

\* signal columns of one row: no signal, or a direction with the stop and
\* target _calculate_sl_tp places around the signal bar's close (the stop on
\* the losing side, the target on the winning side), each at the close or one
\* price step away from it after rounding to the tick size
NoSignal == [signal |-> 0, sl_price |-> NaN, tp_price |-> NaN]

StopSteps == {0, 1}

SignalCols(close) ==
    {NoSignal}
      \cup {[signal |-> 1, sl_price |-> close - ds, tp_price |-> close + dt] :
                ds \in StopSteps, dt \in StopSteps}
      \cup {[signal |-> -1, sl_price |-> close + ds, tp_price |-> close - dt] :
                ds \in StopSteps, dt \in StopSteps}

VARIABLES
    pc,              \* position of the running routine
    n,               \* len(signals)
    i,               \* number of rows read so far; row i is curr_idx
    cur,             \* Open, High, Low, Close of row i
    prev,            \* signal, sl_price, tp_price of row i-1 (prev_idx), as
                     \* read by the iteration of row i
    position,        \* backtest local: 0 flat, 1 long, -1 short
    entry_price,     \* backtest local
    sl_price,        \* backtest local
    tp_price,        \* backtest local
    out,             \* result columns position, entry_price, exit_price and
                     \* exit_type of row i (the code writes them at curr_idx and
                     \* last_idx only and never reads them back)
    pnl,             \* the pnl column, one value per row
    cumulative_pnl,  \* the cumulative_pnl column
    metrics,         \* total_trades, winning_trades, losing_trades, total_return
    entered,         \* number of "Entered ... position" events logged
    exited,          \* number of exit events logged (sl, tp, end of backtest)
    realized,        \* sum of the pnl values logged at the exit events
    gross_loss,      \* sum of the negative pnl values logged at the exit events
    nsignals,        \* signals read so far (rows before curr_idx), counted up to 2
    current_swing,   \* swingline local: 1 up, -1 down
    highest_high,    \* swingline local
    lowest_low,      \* swingline local
    lowest_high,     \* swingline local
    highest_low,     \* swingline local
    swingline,       \* the swingline series, one value per row
    df,              \* the price frame handed to the indicator / the strategy
    adr_period,      \* the period average_daily_range was called with
    adr_data,        \* the frame average_daily_range returned
    signal_col,      \* the signal column generate_signals returned
    error,           \* the exception generate_signals raised, "" if none
    rule_row,        \* the columns the signal loop read of the row it is at
    rule_out,        \* signal, sl_price and tp_price the signal loop wrote there
    emitted,         \* rows before that row that carry a signal, counted up to 2
    require_swingline_confirmation, \* parameters['require_swingline_confirmation']
    call,            \* the arguments of the last call of a static helper
    ret,             \* what that call returned
    parameters,      \* Strategy.parameters, the dict the strategy keeps
    upd,             \* the running update_parameters call: position, argument
    result,          \* what the last update_parameters call returned
    before,          \* Strategy.parameters when that call was entered
    nupdates,        \* calls of update_parameters made so far
    reader,          \* a thread in _generate_signals: position and locals
    observable,      \* the parameter sets the dict has held since it started
    market,          \* per symbol: what the data manager and the condition
                     \* functions do when the symbol's task calls them
    min_conditions,  \* argument of screen
    max_workers,     \* Screener.max_workers
    futures,         \* per symbol: state of the future of its task
    collected,       \* symbols whose future the as_completed loop has handled
    results,         \* the results dict of screen
    is_active,       \* Strategy.is_active
    last_call,       \* the last lifecycle call made and how it ended
    market_data,     \* Strategy.market_data: per symbol, what the strategy holds
    positions,       \* Strategy.positions: per symbol, the open positions held
    max_open_positions,            \* Strategy.max_open_positions
    max_open_positions_per_symbol, \* Strategy.max_open_positions_per_symbol
    run_i,           \* run local: index in self.symbols of the loop
    signals,         \* run local: the symbol of each signal collected
    called,          \* symbols run has called _generate_signals for
    run_result,      \* what the run call that has just returned returned
    data,            \* MarketData.data: the rows of the frame, in its order
    supplied,        \* per timestamp, the bar most recently handed to MarketData
    updates,         \* calls of MarketData.update made so far
    direction,       \* direction of the position whose stop is trailed
    method,          \* method the trailing stop is calculated with
    trail_entry,     \* entry_price of that position
    current_price,   \* current_price of the last calculate_trailing_stop call
    current_stop,    \* the stop of the position: the last call's result
    trail_calls      \* calls of calculate_trailing_stop made so far

loopVars == <<n, i, cur>>

btVars == <<prev, position, entry_price, sl_price, tp_price, out, pnl,
            cumulative_pnl, metrics, entered, exited, realized, gross_loss,
            nsignals>>

swVars == <<current_swing, highest_high, lowest_low, lowest_high, highest_low,
            swingline>>

sgVars == <<df, adr_period, adr_data, signal_col, error>>

rlVars == <<rule_row, rule_out, emitted, require_swingline_confirmation>>

clVars == <<call, ret>>

paVars == <<parameters, upd, result, before, nupdates, reader, observable>>

scVars == <<market, min_conditions, max_workers, futures, collected, results>>

rnVars == <<is_active, last_call, market_data, positions, max_open_positions,
            max_open_positions_per_symbol, run_i, signals, called, run_result>>

mdVars == <<data, supplied, updates>>

trVars == <<direction, method, trail_entry, current_price, current_stop,
            trail_calls>>

moreVars == <<rnVars, mdVars, trVars>>

extVars == <<rlVars, clVars, paVars, scVars, moreVars>>

vars == <<pc, loopVars, btVars, swVars, sgVars, extVars>>

\* the variables of a routine that is not running
BtIdle ==
    /\ prev = NaN /\ position = 0 /\ entry_price = 0 /\ sl_price = None
    /\ tp_price = None /\ out = NaN /\ pnl = << >> /\ cumulative_pnl = << >>
    /\ metrics = NaN /\ entered = 0 /\ exited = 0 /\ realized = 0
    /\ gross_loss = 0
    /\ nsignals = 0

SwIdle ==
    /\ current_swing = -1 /\ highest_high = NaN /\ lowest_low = NaN
    /\ lowest_high = NaN /\ highest_low = NaN /\ swingline = << >>

SgIdle ==
    /\ df = << >> /\ adr_period = 0 /\ adr_data = NaN /\ signal_col = << >>
    /\ error = ""

LoopIdle == n = 0 /\ i = 0 /\ cur = NaN

RlIdle ==
    /\ rule_row = NaN /\ rule_out = NaN /\ emitted = 0
    /\ require_swingline_confirmation = FALSE

ClIdle == call = NaN /\ ret = NaN

PaIdle ==
    /\ parameters = NaN /\ upd = NaN /\ result = None /\ before = NaN
    /\ nupdates = 0 /\ reader = NaN /\ observable = {}

ScIdle ==
    /\ market = << >> /\ min_conditions = 0 /\ max_workers = 0
    /\ futures = << >> /\ collected = {} /\ results = << >>

RnIdle ==
    /\ is_active = FALSE /\ last_call = "" /\ market_data = << >>
    /\ positions = << >> /\ max_open_positions = 0
    /\ max_open_positions_per_symbol = 0 /\ run_i = 0 /\ signals = << >>
    /\ called = {} /\ run_result = None

MdIdle == data = << >> /\ supplied = << >> /\ updates = 0

TrIdle ==
    /\ direction = "" /\ method = "" /\ trail_entry = 0 /\ current_price = 0
    /\ current_stop = None /\ trail_calls = 0

MoreIdle == RnIdle /\ MdIdle /\ TrIdle

ExtIdle == RlIdle /\ ClIdle /\ PaIdle /\ ScIdle /\ MoreIdle

\* ------------------------------------------------------- backtest simulator
NoResult == [position |-> 0, entry_price |-> NaN, exit_price |-> NaN,
             exit_type |-> ""]

NoMetrics == [total_trades |-> 0, winning_trades |-> 0, losing_trades |-> 0,
              total_return |-> 0, profit_factor |-> NaN]

\* float('inf'), as a quotient
Inf == [num |-> 1, den |-> 0]

\* (exit - entry) / entry * 100 for a long, (entry - exit) / entry * 100 for a
\* short, times PnlScale
Pnl(dir, entry, exit) ==
    IF dir = 1 THEN ((exit - entry) * 100 * PnlScale) \div entry
               ELSE ((entry - exit) * 100 * PnlScale) \div entry

NoExit == [type |-> "", price |-> NaN, pnl |-> 0]

\* the part of a pnl value that is a loss
Loss(p) == IF p < 0 THEN p ELSE 0

\* the exit arbitration the simulator would get wrong by testing the target first
CheckExitTargetFirst(pos, entry, sl, tp, row) ==
    IF pos = 1 THEN
        IF tp # None /\ row.High >= tp
            THEN [type |-> "tp", price |-> tp, pnl |-> Pnl(1, entry, tp)]
        ELSE IF sl # None /\ row.Low <= sl
            THEN [type |-> "sl", price |-> sl, pnl |-> Pnl(1, entry, sl)]
        ELSE NoExit
    ELSE IF pos = -1 THEN
        IF tp # None /\ row.Low <= tp
            THEN [type |-> "tp", price |-> tp, pnl |-> Pnl(-1, entry, tp)]
        ELSE IF sl # None /\ row.High >= sl
            THEN [type |-> "sl", price |-> sl, pnl |-> Pnl(-1, entry, sl)]
        ELSE NoExit
    ELSE NoExit

\* an exit check that fills at the close of the bar
CheckExitAtClose(pos, entry, sl, tp, row) ==
    IF pos = 1 THEN
        IF sl # None /\ row.Low <= sl
            THEN [type |-> "sl", price |-> row.Close,
                  pnl |-> Pnl(1, entry, row.Close)]
        ELSE IF tp # None /\ row.High >= tp
            THEN [type |-> "tp", price |-> row.Close,
                  pnl |-> Pnl(1, entry, row.Close)]
        ELSE NoExit
    ELSE IF pos = -1 THEN
        IF sl # None /\ row.High >= sl
            THEN [type |-> "sl", price |-> row.Close,
                  pnl |-> Pnl(-1, entry, row.Close)]
        ELSE IF tp # None /\ row.Low <= tp
            THEN [type |-> "tp", price |-> row.Close,
                  pnl |-> Pnl(-1, entry, row.Close)]
        ELSE NoExit
    ELSE NoExit

\* stop loss / take profit check of the open position against the current row
CheckExit(pos, entry, sl, tp, row) ==
    IF pos = 1 THEN
        IF sl # None /\ row.Low <= sl
            THEN [type |-> "sl", price |-> sl, pnl |-> Pnl(1, entry, sl)]
        ELSE IF tp # None /\ row.High >= tp
            THEN [type |-> "tp", price |-> tp, pnl |-> Pnl(1, entry, tp)]
        ELSE NoExit
    ELSE IF pos = -1 THEN
        IF sl # None /\ row.High >= sl
            THEN [type |-> "sl", price |-> sl, pnl |-> Pnl(-1, entry, sl)]
        ELSE IF tp # None /\ row.Low <= tp
            THEN [type |-> "tp", price |-> tp, pnl |-> Pnl(-1, entry, tp)]
        ELSE NoExit
    ELSE NoExit

\* an entry test that forgets the open position
EntryAllowedAnyPosition(pos, sig) == sig.signal # 0

\* "if position == 0 and signals.loc[prev_idx, 'signal'] != 0"
EntryAllowed(pos, sig) == pos = 0 /\ sig.signal # 0

\* an entry filled on the signal bar instead of the next bar
EntryPriceSignalBar(prevBar, currBar) == prevBar.Close

\* "entry_price = float(signals.loc[curr_idx, 'Open'])"
EntryPrice(prevBar, currBar) == currBar.Open

\* pd.isna(x) -> None
NoneIfNaN(x) == IF x = NaN THEN None ELSE x

\* an end-of-data test that only closes long positions
OpenAtEndLongOnly(pos) == pos = 1

\* "if position != 0" after the loop
OpenAtEnd(pos) == pos # 0

CountSignal(c, sig) == IF sig.signal = 0 \/ c = 2 THEN c ELSE c + 1

BtInit ==
    /\ n \in 1..MaxBars
    /\ i = 1
    /\ cur \in Bars
    /\ prev = NoSignal
    /\ pc = IF n = 1 THEN "final" ELSE "loop"
    /\ position = 0
    /\ entry_price = 0
    /\ sl_price = None
    /\ tp_price = None
    /\ out = NoResult
    /\ pnl = [k \in 1..n |-> 0]
    /\ cumulative_pnl = [k \in 1..n |-> 0]
    /\ metrics = NoMetrics
    /\ entered = 0
    /\ exited = 0
    /\ realized = 0
    /\ gross_loss = 0
    /\ nsignals = 0
    /\ SwIdle
    /\ SgIdle
    /\ ExtIdle

\* one iteration of "for i in range(1, len(signals))": row k = i + 1 is
\* curr_idx, row i is prev_idx.  The iteration reads the bar of curr_idx and
\* the signal columns of prev_idx; no other iteration reads these cells.
BacktestStep ==
    /\ pc = "loop"
    /\ i < n
    /\ \E row \in Bars, sig \in SignalCols(cur.Close) :
        LET k    == i + 1
            x    == CheckExit(position, entry_price, sl_price, tp_price, row)
            hit  == x.type # ""
            pos1 == IF hit THEN 0 ELSE position
            out1 == IF hit
                      THEN [NoResult EXCEPT !.exit_price = x.price,
                                            !.exit_type = x.type]
                      ELSE NoResult
            go   == EntryAllowed(pos1, sig)
            ep   == EntryPrice(cur, row)
        IN  /\ position' = IF go THEN sig.signal ELSE pos1
            /\ entry_price' = IF go THEN ep ELSE entry_price
            /\ sl_price' = IF go THEN NoneIfNaN(sig.sl_price) ELSE sl_price
            /\ tp_price' = IF go THEN NoneIfNaN(sig.tp_price) ELSE tp_price
            /\ out' = IF go
                        THEN [out1 EXCEPT !.position = sig.signal,
                                          !.entry_price = ep]
                        ELSE out1
            /\ pnl' = IF hit THEN [pnl EXCEPT ![k] = x.pnl] ELSE pnl
            /\ entered' = IF go THEN entered + 1 ELSE entered
            /\ exited' = IF hit THEN exited + 1 ELSE exited
            /\ realized' = IF hit THEN realized + x.pnl ELSE realized
            /\ gross_loss' = IF hit THEN gross_loss + Loss(x.pnl) ELSE gross_loss
            /\ nsignals' = CountSignal(nsignals, sig)
            /\ cur' = row
            /\ prev' = sig
            /\ i' = k
            /\ pc' = IF k = n THEN "final" ELSE "loop"
    /\ UNCHANGED <<n, cumulative_pnl, metrics, swVars, sgVars, extVars>>

RECURSIVE CumSum(_, _)
CumSum(col, k) == IF k = 0 THEN 0 ELSE CumSum(col, k - 1) + col[k]

\* signals[mask]['pnl'].mean() if the mask selects a row else 0, as a
\* quotient
MeanOrZero(col, rows) ==
    IF rows = {} THEN [num |-> 0, den |-> 1]
    ELSE [num |-> CumSum([k \in DOMAIN col |-> IF k \in rows THEN col[k] ELSE 0],
                         Len(col)),
          den |-> Cardinality(rows)]

\* abs(avg_win * winning_trades / (avg_loss * losing_trades)) if
\* losing_trades > 0 and avg_loss != 0 else float('inf'), as a quotient
ProfitFactor(col) ==
    LET wins   == {k \in DOMAIN col : col[k] > 0}
        losses == {k \in DOMAIN col : col[k] < 0}
        avg_win  == MeanOrZero(col, wins)
        avg_loss == MeanOrZero(col, losses)
        num == avg_win.num * Cardinality(wins) * avg_loss.den
        den == avg_win.den * avg_loss.num * Cardinality(losses)
    IN  IF Cardinality(losses) > 0 /\ avg_loss.num # 0
          THEN [num |-> IF num < 0 THEN -num ELSE num,
                den |-> IF den < 0 THEN -den ELSE den]
          ELSE Inf

\* the code after the loop: close at the end of the backtest, cumulative
\* P&L and the performance metrics
BacktestFinish ==
    /\ pc = "final"
    /\ LET open == OpenAtEnd(position)
           p    == Pnl(position, entry_price, cur.Close)
           pnl1 == IF open THEN [pnl EXCEPT ![n] = p] ELSE pnl
       IN  /\ out' = IF open
                       THEN [out EXCEPT !.position = 0,
                                        !.exit_price = cur.Close,
                                        !.exit_type = "close"]
                       ELSE out
           /\ pnl' = pnl1
           /\ cumulative_pnl' = [k \in 1..n |-> CumSum(pnl1, k)]
           /\ metrics' =
                [total_trades   |-> Cardinality({k \in 1..n : pnl1[k] # 0}),
                 winning_trades |-> Cardinality({k \in 1..n : pnl1[k] > 0}),
                 losing_trades  |-> Cardinality({k \in 1..n : pnl1[k] < 0}),
                 total_return   |-> CumSum(pnl1, n),
                 profit_factor  |-> ProfitFactor(pnl1)]
           /\ exited' = IF open THEN exited + 1 ELSE exited
           /\ realized' = IF open THEN realized + p ELSE realized
           /\ gross_loss' = IF open THEN gross_loss + Loss(p) ELSE gross_loss
    /\ pc' = "done"
    /\ UNCHANGED <<n, i, cur, prev, position, entry_price, sl_price, tp_price,
                   entered, nsignals, swVars, sgVars, extVars>>

BtNext == BacktestStep \/ BacktestFinish

SpecBacktest == BtInit /\ [][BtNext]_vars

\* ---------------------------------------------------- Indicators.swingline
\* the state the scan carries from bar to bar
SwingState == [current_swing |-> current_swing, highest_high |-> highest_high,
               lowest_low |-> lowest_low, lowest_high |-> lowest_high,
               highest_low |-> highest_low]

Max(a, b) == IF a > b THEN a ELSE b
Min(a, b) == IF a < b THEN a ELSE b

\* a scan that turns on the trackers and the bar's own direction alone,
\* without the close beyond the previous bar's low / high
SwingBarNoConfirm(st, prevBar, bar) ==
    IF st.current_swing = 1 THEN
        LET hh == Max(st.highest_high, bar.High)
            hl == Max(st.highest_low, bar.Low)
        IN  IF bar.High < hl /\ bar.Close < bar.Open
              THEN [st EXCEPT !.current_swing = -1, !.highest_high = hh,
                              !.highest_low = hl, !.lowest_low = bar.Low,
                              !.lowest_high = bar.High]
              ELSE [st EXCEPT !.highest_high = hh, !.highest_low = hl]
    ELSE
        LET ll == Min(st.lowest_low, bar.Low)
            lh == Min(st.lowest_high, bar.High)
        IN  IF bar.Low > lh /\ bar.Close > bar.Open
              THEN [st EXCEPT !.current_swing = 1, !.lowest_low = ll,
                              !.lowest_high = lh, !.highest_high = bar.High,
                              !.highest_low = bar.Low]
              ELSE [st EXCEPT !.lowest_low = ll, !.lowest_high = lh]

\* the body of "for i in range(1, len(df))" for one bar
SwingBar(st, prevBar, bar) ==
    IF st.current_swing = 1 THEN
        LET hh == Max(st.highest_high, bar.High)
            hl == Max(st.highest_low, bar.Low)
        IN  IF bar.High < hl /\ bar.Close < bar.Open /\ bar.Close < prevBar.Low
              THEN [st EXCEPT !.current_swing = -1, !.highest_high = hh,
                              !.highest_low = hl, !.lowest_low = bar.Low,
                              !.lowest_high = bar.High]
              ELSE [st EXCEPT !.highest_high = hh, !.highest_low = hl]
    ELSE
        LET ll == Min(st.lowest_low, bar.Low)
            lh == Min(st.lowest_high, bar.High)
        IN  IF bar.Low > lh /\ bar.Close > bar.Open /\ bar.Close > prevBar.High
              THEN [st EXCEPT !.current_swing = 1, !.lowest_low = ll,
                              !.lowest_high = lh, !.highest_high = bar.High,
                              !.highest_low = bar.Low]
              ELSE [st EXCEPT !.lowest_low = ll, !.lowest_high = lh]

SwInit ==
    /\ n \in 1..MaxBars
    /\ i = 1
    /\ cur \in SwingBars
    /\ pc = IF n = 1 THEN "swing_done" ELSE "swing_loop"
    /\ highest_high = cur.High
    /\ lowest_low = cur.Low
    /\ lowest_high = cur.High
    /\ highest_low = cur.Low
    /\ current_swing = -1
    /\ swingline = [k \in 1..n |-> -1]
    /\ BtIdle
    /\ SgIdle
    /\ ExtIdle

\* one iteration of the scan: row k = i + 1 is the current bar, row i (cur)
\* the previous one
SwingStep ==
    /\ pc = "swing_loop"
    /\ i < n
    /\ \E bar \in SwingBars :
        LET k  == i + 1
            st == SwingBar(SwingState, cur, bar)
        IN  /\ current_swing' = st.current_swing
            /\ highest_high' = st.highest_high
            /\ lowest_low' = st.lowest_low
            /\ lowest_high' = st.lowest_high
            /\ highest_low' = st.highest_low
            /\ swingline' = [swingline EXCEPT ![k] = st.current_swing]
            /\ cur' = bar
            /\ i' = k
            /\ pc' = IF k = n THEN "swing_done" ELSE "swing_loop"
    /\ UNCHANGED <<n, btVars, sgVars, extVars>>

SwNext == SwingStep

SpecSwing == SwInit /\ [][SwNext]_vars

\* ------------------------------------------- Indicators.average_daily_range
\* A price p of the frame stands for p * 10 * tick_size, so that the daily
\* range (High - Low) / tick_size / 10 is the integer High - Low.  A mean is
\* kept as the pair of the sum and the number of values; count 0 is "no
\* value" (NaN).
NoValue == [sum |-> 0, count |-> 0]

RECURSIVE SumOver(_, _, _)
SumOver(col, a, b) == IF a > b THEN 0 ELSE col[a] + SumOver(col, a + 1, b)

\* df['High'] - df['Low']) / tick_size / 10
DailyRange(frame) == [j \in 1..Len(frame) |-> frame[j].High - frame[j].Low]

\* col.rolling(window=w).mean()
RollingMean(col, w) ==
    [j \in 1..Len(col) |->
        IF j < w THEN NoValue
                 ELSE [sum |-> SumOver(col, j - w + 1, j), count |-> w]]

\* an ADR left on the bar whose own range closes the window
ShiftNone(col) == col

\* col.shift(1)
Shift(col) == [j \in 1..Len(col) |-> IF j = 1 THEN NoValue ELSE col[j - 1]]

\* the columns of the frame average_daily_range returns besides the input's
AdrColumns == {"daily_range", "ADR", "SL"}

AverageDailyRange(frame, period) ==
    LET dr == DailyRange(frame)
    IN  [daily_range |-> dr, ADR |-> Shift(RollingMean(dr, period))]

\* ----------------------------- MeanReversionSwinglineStrategy.generate_signals
InputColumns == {"Open", "High", "Low", "Close", "Volume"}

\* adr_data[['ADR', 'daily_range', 'range_pct']]
SelectedColumns == {"ADR", "daily_range", "range_pct"}

Frames == UNION {[1..k -> Bars] : k \in 1..MaxBars}

SgInit ==
    /\ pc = "loaded"
    /\ df \in Frames
    /\ adr_period = 0
    /\ adr_data = NaN
    /\ signal_col = << >>
    /\ error = ""
    /\ LoopIdle
    /\ BtIdle
    /\ SwIdle
    /\ ExtIdle

\* a call of Indicators.average_daily_range on the frame
CallAverageDailyRange ==
    /\ pc = "loaded"
    /\ \E period \in 1..MaxPeriod :
        /\ adr_period' = period
        /\ adr_data' = AverageDailyRange(df, period)
    /\ pc' = "adr_done"
    /\ UNCHANGED <<df, signal_col, error, loopVars, btVars, swVars, extVars>>

\* a call of generate_signals on the frame: the frame average_daily_range
\* returns has no column range_pct, so the selection of the three columns
\* raises KeyError before any signal is computed
CallGenerateSignals ==
    /\ pc = "loaded"
    /\ ~(SelectedColumns \subseteq (InputColumns \cup AdrColumns))
    /\ error' = "KeyError"
    /\ signal_col' = << >>
    /\ pc' = "raised"
    /\ UNCHANGED <<df, adr_period, adr_data, loopVars, btVars, swVars, extVars>>

SgNext == CallAverageDailyRange \/ CallGenerateSignals

SpecSignal == SgInit /\ [][SgNext]_vars

\* ------------------------------------------------- _calculate_sl_tp
\* A price is a whole number of ticks (price / tick_size).  A multiplier is
\* the fraction num / den, the ADR the mean sum / count.

\* default_parameters['stop_loss_adr_multiplier'] and ['risk_reward_ratio']
StopLossAdrMultiplier == [num |-> 1, den |-> 2]
RiskRewardRatio == [num |-> 2, den |-> 1]

\* a rounding that cuts the fraction off
RoundDown(num, den) == num \div den

\* Python's round(num / den) for den > 0: to the nearest integer, a tie to
\* the even one
RoundHalfEven(num, den) ==
    LET q == num \div den
        r == num - q * den
    IN  IF 2 * r < den THEN q
        ELSE IF 2 * r > den THEN q + 1
        ELSE IF q % 2 = 0 THEN q ELSE q + 1

\* a stop and target computed with the distances cut off instead of rounded
CalculateSlTpRoundDown(price, adr, is_buy, mult, rr) ==
    LET dn == adr.sum * mult.num
        dd == adr.count * mult.den
        tn == dn * rr.num
        td == dd * rr.den
    IN  IF is_buy
          THEN [sl_price |-> RoundDown(price * dd - dn, dd),
                tp_price |-> RoundDown(price * td + tn, td)]
          ELSE [sl_price |-> RoundDown(price * dd + dn, dd),
                tp_price |-> RoundDown(price * td - tn, td)]

\* sl_distance = adr * tick_size * mult is dn / dd ticks, tp_distance =
\* sl_distance * rr is tn / td ticks; both prices are rounded to the tick
CalculateSlTp(price, adr, is_buy, mult, rr) ==
    LET dn == adr.sum * mult.num
        dd == adr.count * mult.den
        tn == dn * rr.num
        td == dd * rr.den
    IN  IF is_buy
          THEN [sl_price |-> RoundHalfEven(price * dd - dn, dd),
                tp_price |-> RoundHalfEven(price * td + tn, td)]
          ELSE [sl_price |-> RoundHalfEven(price * dd + dn, dd),
                tp_price |-> RoundHalfEven(price * td - tn, td)]

\* ------------------------------------- the signal loop of generate_signals
\* The loop "for i in range(swingline_lookback + 1, len(df))" over a frame
\* that carries the columns the loop reads.  Row k of the model is the row
\* of 0-based index k - 1.

\* values of the range_pct column on either side of the threshold
RangePcts == {RangeThreshold, RangeThreshold + 1}

\* values of the ADR column of a row the loop reads: half a tick and a tick
RuleAdrs == {[sum |-> 1, count |-> 2], [sum |-> 1, count |-> 1]}

RuleRows == [Open : Prices, Close : Prices, range_pct : RangePcts,
             oversold : BOOLEAN, overbought : BOOLEAN, ADR : RuleAdrs]

\* df['swingline'].diff() at row j > 1
SwinglineChange(col, j) == col[j] - col[j - 1]

\* a window that starts at the first row of the frame
SwinglineWindowAll(col, k) ==
    [t \in 1..(k - 1) |-> SwinglineChange(col, t + 1)]

\* df['swingline_change'].iloc[lookback_start:i+1] for the row k = i + 1
SwinglineWindow(col, k) ==
    [t \in 1..(k - Max(1, k - SwinglineLookback) + 1) |->
        SwinglineChange(col, Max(1, k - SwinglineLookback) + t - 1)]

\* a loop body that skips a row when an earlier row already carries a signal
SignalRowTracking(earlier, row, window, require) ==
    IF earlier = 0 /\ row.range_pct > RangeThreshold THEN
        IF row.Close < row.Open /\ row.oversold THEN
            IF require => \E t \in DOMAIN window : window[t] = 2
              THEN LET x == CalculateSlTp(row.Close, row.ADR, TRUE,
                                          StopLossAdrMultiplier, RiskRewardRatio)
                   IN  [signal |-> 1, sl_price |-> x.sl_price,
                        tp_price |-> x.tp_price]
              ELSE NoSignal
        ELSE IF row.Close > row.Open /\ row.overbought THEN
            IF require => \E t \in DOMAIN window : window[t] = -2
              THEN LET x == CalculateSlTp(row.Close, row.ADR, FALSE,
                                          StopLossAdrMultiplier, RiskRewardRatio)
                   IN  [signal |-> -1, sl_price |-> x.sl_price,
                        tp_price |-> x.tp_price]
              ELSE NoSignal
        ELSE NoSignal
    ELSE NoSignal

\* the body of the loop for one row: earlier is the number of rows before it
\* whose signal column is already set, which the body never reads
SignalRow(earlier, row, window, require) ==
    IF row.range_pct > RangeThreshold THEN
        IF row.Close < row.Open /\ row.oversold THEN
            IF require => \E t \in DOMAIN window : window[t] = 2
              THEN LET x == CalculateSlTp(row.Close, row.ADR, TRUE,
                                          StopLossAdrMultiplier, RiskRewardRatio)
                   IN  [signal |-> 1, sl_price |-> x.sl_price,
                        tp_price |-> x.tp_price]
              ELSE NoSignal
        ELSE IF row.Close > row.Open /\ row.overbought THEN
            IF require => \E t \in DOMAIN window : window[t] = -2
              THEN LET x == CalculateSlTp(row.Close, row.ADR, FALSE,
                                          StopLossAdrMultiplier, RiskRewardRatio)
                   IN  [signal |-> -1, sl_price |-> x.sl_price,
                        tp_price |-> x.tp_price]
              ELSE NoSignal
        ELSE NoSignal
    ELSE NoSignal

\* MeanReversionADRStrategy: buy_condition, sell_condition and the two
\* assignments "df.loc[buy_condition, 'signal'] = 1" and
\* "df.loc[sell_condition, 'signal'] = -1", for one row
AdrStrategySignal(row) ==
    LET buy_condition  == /\ row.range_pct > RangeThreshold
                          /\ row.Close < row.Open /\ row.oversold
        sell_condition == /\ row.range_pct > RangeThreshold
                          /\ row.Close > row.Open /\ row.overbought
        s1 == IF buy_condition THEN 1 ELSE 0
    IN  IF sell_condition THEN -1 ELSE s1

RuleInit ==
    /\ n \in 1..MaxRuleRows
    /\ i = Min(n, SwinglineLookback + 1)
    /\ pc = IF n <= SwinglineLookback + 1 THEN "rule_done" ELSE "rule_loop"
    /\ swingline \in {c \in [1..n -> {-1, 1}] : c[1] = -1}
    /\ require_swingline_confirmation \in BOOLEAN
    /\ rule_row = NaN
    /\ rule_out = NoSignal
    /\ emitted = 0
    /\ cur = NaN
    /\ current_swing = -1 /\ highest_high = NaN /\ lowest_low = NaN
    /\ lowest_high = NaN /\ highest_low = NaN
    /\ BtIdle
    /\ SgIdle
    /\ ClIdle
    /\ PaIdle
    /\ ScIdle
    /\ MoreIdle

\* one iteration of the loop: row k = i + 1
RuleStep ==
    /\ pc = "rule_loop"
    /\ i < n
    /\ \E row \in RuleRows :
        LET k == i + 1
        IN  /\ rule_row' = row
            /\ rule_out' = SignalRow(CountSignal(emitted, rule_out), row,
                                     SwinglineWindow(swingline, k),
                                     require_swingline_confirmation)
            /\ emitted' = CountSignal(emitted, rule_out)
            /\ i' = k
            /\ pc' = IF k = n THEN "rule_done" ELSE "rule_loop"
    /\ UNCHANGED <<n, cur, require_swingline_confirmation, btVars, swVars,
                   sgVars, clVars, paVars, scVars, moreVars>>

RuleNext == RuleStep

SpecRule == RuleInit /\ [][RuleNext]_vars

\* ------------------------------------------------- RiskManagement helpers
\* One call of a static helper: call holds the arguments, ret the value
\* returned.  A price is a whole number of price units of 0.0001, a lot size
\* a whole number of hundredths of a lot, a contract size the value of one
\* price unit per lot (contract_size * 0.0001), a risk per trade a whole
\* number of percent, and the returned size is 0 or such a lot size.

\* symbol_info.get defaults: 100000, 0.01, 0.01, 100.0 and 0.0001
DefaultContractSize == 10
DefaultLotStep == 1
DefaultMinLot == 1
DefaultMaxLot == 10000
DefaultMinStopDistance == 1

\* max_risk_per_trade = 0.02
MaxRiskPerTrade == 2

\* symbol_info.get(key, default): a key the dict lacks is None
Get(info, key, default) == IF info[key] = None THEN default ELSE info[key]

\* instrument metadata with every key present, and the empty dict
SizingInfos ==
    {m \in [contract_size : 0..MaxContract, lot_step : 1..(MaxLot - 1),
            min_lot : 1..MaxLot, max_lot : 1..MaxLot] : m.min_lot <= m.max_lot}
      \cup {[contract_size |-> None, lot_step |-> None, min_lot |-> None,
              max_lot |-> None]}

ValidateInfos ==
    {m \in [min_stop_distance : 1..MaxPrice, contract_size : 1..MaxContract,
            min_lot : 1..MaxLot, max_lot : 1..MaxLot] : m.min_lot <= m.max_lot}
      \cup {[min_stop_distance |-> None, contract_size |-> None,
              min_lot |-> None, max_lot |-> None]}

\* the sizing example of the risk model: balance 10,000, risk 1 %, entry
\* 1.1000, stop 1.0950, default instrument metadata
ExampleSizing ==
    [fn |-> "calculate_position_size", account_balance |-> 10000,
     risk_per_trade |-> 1, entry_price |-> 11000, stop_loss_price |-> 10950,
     symbol_info |-> [contract_size |-> None, lot_step |-> None,
                      min_lot |-> None, max_lot |-> None]]

SizingCalls ==
    [fn : {"calculate_position_size"}, account_balance : 0..MaxBalance,
     risk_per_trade : 1..MaxRiskPct, entry_price : Prices,
     stop_loss_price : Prices, symbol_info : SizingInfos]
      \cup {ExampleSizing}

Abs(x) == IF x < 0 THEN -x ELSE x

\* a sizing that falls back to the minimum lot when the stop distance is zero
CalculatePositionSizeMinLot(c) ==
    LET price_diff    == Abs(c.entry_price - c.stop_loss_price)
        contract_size == Get(c.symbol_info, "contract_size", DefaultContractSize)
        lot_step      == Get(c.symbol_info, "lot_step", DefaultLotStep)
        min_lot       == Get(c.symbol_info, "min_lot", DefaultMinLot)
        max_lot       == Get(c.symbol_info, "max_lot", DefaultMaxLot)
    IN  IF price_diff = 0 THEN min_lot
        ELSE IF price_diff * contract_size = 0 THEN 0
        ELSE Max(min_lot,
                 Min(RoundHalfEven(c.account_balance * c.risk_per_trade,
                                   price_diff * contract_size * lot_step)
                        * lot_step,
                     max_lot))

\* a sizing that does not apply the lot bounds
CalculatePositionSizeNoClamp(c) ==
    LET price_diff    == Abs(c.entry_price - c.stop_loss_price)
        contract_size == Get(c.symbol_info, "contract_size", DefaultContractSize)
        lot_step      == Get(c.symbol_info, "lot_step", DefaultLotStep)
    IN  IF price_diff = 0 THEN 0
        ELSE IF price_diff * contract_size = 0 THEN 0
        ELSE RoundHalfEven(c.account_balance * c.risk_per_trade,
                           price_diff * contract_size * lot_step) * lot_step

\* calculate_position_size: risk_amount = balance * risk / 100, position_size
\* = risk_amount / (price_diff * contract_size) lots, that is balance * risk /
\* (price_diff * contract_size) hundredths of a lot; a division by zero is
\* caught by the except clause, which returns 0.0
CalculatePositionSize(c) ==
    LET price_diff    == Abs(c.entry_price - c.stop_loss_price)
        contract_size == Get(c.symbol_info, "contract_size", DefaultContractSize)
        lot_step      == Get(c.symbol_info, "lot_step", DefaultLotStep)
        min_lot       == Get(c.symbol_info, "min_lot", DefaultMinLot)
        max_lot       == Get(c.symbol_info, "max_lot", DefaultMaxLot)
    IN  IF price_diff = 0 THEN 0
        ELSE IF price_diff * contract_size = 0 THEN 0
        ELSE Max(min_lot,
                 Min(RoundHalfEven(c.account_balance * c.risk_per_trade,
                                   price_diff * contract_size * lot_step)
                        * lot_step,
                     max_lot))

SlTpAdrs == {[sum |-> t, count |-> c] : t \in 0..MaxAdrSum, c \in 1..MaxPeriod}

SlTpCalls ==
    [fn : {"_calculate_sl_tp"}, price : Prices, adr : SlTpAdrs,
     is_buy : BOOLEAN,
     mult : {StopLossAdrMultiplier, [num |-> 1, den |-> 1]},
     rr : {[num |-> r, den |-> 1] : r \in 1..MaxRatio}]

ClInit ==
    /\ pc = "idle"
    /\ call = NaN
    /\ ret = NaN
    /\ LoopIdle
    /\ BtIdle
    /\ SwIdle
    /\ SgIdle
    /\ RlIdle
    /\ PaIdle
    /\ ScIdle
    /\ MoreIdle

\* strategy._calculate_sl_tp(price, adr, is_buy) under the strategy's
\* stop_loss_adr_multiplier and risk_reward_ratio
CallCalculateSlTp ==
    /\ pc = "idle"
    /\ \E c \in SlTpCalls :
        /\ call' = c
        /\ ret' = CalculateSlTp(c.price, c.adr, c.is_buy, c.mult, c.rr)
    /\ pc' = "returned"
    /\ UNCHANGED <<loopVars, btVars, swVars, sgVars, rlVars, paVars, scVars,
                   moreVars>>

\* RiskManagement.calculate_position_size(...)
CallCalculatePositionSize ==
    /\ pc = "idle"
    /\ \E c \in SizingCalls :
        /\ call' = c
        /\ ret' = CalculatePositionSize(c)
    /\ pc' = "returned"
    /\ UNCHANGED <<loopVars, btVars, swVars, sgVars, rlVars, paVars, scVars,
                   moreVars>>

ValidateCalls ==
    [fn : {"validate_risk_parameters"}, account_balance : 0..MaxBalance,
     risk_per_trade : 1..MaxRiskPct, entry_price : Prices,
     stop_loss_price : Prices, position_size : 0..MaxLot,
     symbol_info : ValidateInfos]

\* a validation that rejects a risk amount equal to the maximum
ValidateRiskParametersBelow(c) ==
    LET min_stop_distance == Get(c.symbol_info, "min_stop_distance",
                                 DefaultMinStopDistance)
        stop_distance     == Abs(c.entry_price - c.stop_loss_price)
        contract_size     == Get(c.symbol_info, "contract_size",
                                 DefaultContractSize)
        risk_amount       == stop_distance * c.position_size * contract_size
        max_risk_amount   == c.account_balance * MaxRiskPerTrade
        min_lot           == Get(c.symbol_info, "min_lot", DefaultMinLot)
        max_lot           == Get(c.symbol_info, "max_lot", DefaultMaxLot)
    IN  IF c.risk_per_trade > MaxRiskPerTrade
          THEN [ok |-> FALSE, reason |-> {"risk_per_trade"}]
        ELSE IF stop_distance < min_stop_distance
          THEN [ok |-> FALSE, reason |-> {"stop_distance"}]
        ELSE IF risk_amount >= max_risk_amount
          THEN [ok |-> FALSE, reason |-> {"risk_amount"}]
        ELSE IF c.position_size < min_lot
          THEN [ok |-> FALSE, reason |-> {"position_size"}]
        ELSE IF c.position_size > max_lot
          THEN [ok |-> FALSE, reason |-> {"position_size"}]
        ELSE [ok |-> TRUE, reason |-> {}]

\* validate_risk_parameters: the checks in the order of the code, each
\* returning at once with the message of the check that failed; reason is
\* the set of checks the returned message names.  risk_amount >
\* max_risk_amount compares stop_distance * position_size * contract_size
\* / 100 with account_balance * 2 / 100.
ValidateRiskParameters(c) ==
    LET min_stop_distance == Get(c.symbol_info, "min_stop_distance",
                                 DefaultMinStopDistance)
        stop_distance     == Abs(c.entry_price - c.stop_loss_price)
        contract_size     == Get(c.symbol_info, "contract_size",
                                 DefaultContractSize)
        risk_amount       == stop_distance * c.position_size * contract_size
        max_risk_amount   == c.account_balance * MaxRiskPerTrade
        min_lot           == Get(c.symbol_info, "min_lot", DefaultMinLot)
        max_lot           == Get(c.symbol_info, "max_lot", DefaultMaxLot)
    IN  IF c.risk_per_trade > MaxRiskPerTrade
          THEN [ok |-> FALSE, reason |-> {"risk_per_trade"}]
        ELSE IF stop_distance < min_stop_distance
          THEN [ok |-> FALSE, reason |-> {"stop_distance"}]
        ELSE IF risk_amount > max_risk_amount
          THEN [ok |-> FALSE, reason |-> {"risk_amount"}]
        ELSE IF c.position_size < min_lot
          THEN [ok |-> FALSE, reason |-> {"position_size"}]
        ELSE IF c.position_size > max_lot
          THEN [ok |-> FALSE, reason |-> {"position_size"}]
        ELSE [ok |-> TRUE, reason |-> {}]

\* RiskManagement.validate_risk_parameters(...)
CallValidateRiskParameters ==
    /\ pc = "idle"
    /\ \E c \in ValidateCalls :
        /\ call' = c
        /\ ret' = ValidateRiskParameters(c)
    /\ pc' = "returned"
    /\ UNCHANGED <<loopVars, btVars, swVars, sgVars, rlVars, paVars, scVars,
                   moreVars>>

\* instrument metadata with the keys both helpers read, and the empty dict
SizedInfos ==
    {m \in [contract_size : 0..MaxContract, lot_step : 1..(MaxLot - 1),
            min_lot : 1..MaxLot, max_lot : 1..MaxLot,
            min_stop_distance : 1..MaxPrice] : m.min_lot <= m.max_lot}
      \cup {[contract_size |-> None, lot_step |-> None, min_lot |-> None,
              max_lot |-> None, min_stop_distance |-> None]}

SizedCalls ==
    [fn : {"validate_calculated_size"}, account_balance : 0..MaxBalance,
     risk_per_trade : 1..MaxRiskPct, entry_price : Prices,
     stop_loss_price : Prices, symbol_info : SizedInfos]

\* RiskManagement.calculate_position_size(...) and then
\* RiskManagement.validate_risk_parameters(...) of the size it returned,
\* with the same balance, risk, entry, stop and instrument metadata
CallValidateCalculatedSize ==
    /\ pc = "idle"
    /\ \E c \in SizedCalls :
        LET position_size == CalculatePositionSize(c)
        IN  /\ call' = [account_balance |-> c.account_balance,
                        risk_per_trade |-> c.risk_per_trade,
                        entry_price |-> c.entry_price,
                        stop_loss_price |-> c.stop_loss_price,
                        symbol_info |-> c.symbol_info, fn |-> c.fn,
                        position_size |-> position_size]
            /\ ret' = ValidateRiskParameters(
                        [c EXCEPT !.fn = "validate_risk_parameters"]
                          @@ [position_size |-> position_size])
    /\ pc' = "returned"
    /\ UNCHANGED <<loopVars, btVars, swVars, sgVars, rlVars, paVars, scVars,
                   moreVars>>

ClNext ==
    \/ CallCalculateSlTp
    \/ CallCalculatePositionSize
    \/ CallValidateRiskParameters
    \/ CallValidateCalculatedSize

SpecCalls == ClInit /\ [][ClNext]_vars

\* ------------------------------------ Strategy.parameters and its updates
\* MeanReversionStrategy (TrendFollowingStrategy validates the same two keys
\* in the same way).  A parameter dict is a record over the two RSI keys; a
\* key an argument dict lacks is None.

ParamKeys == {"rsi_oversold", "rsi_overbought"}

\* levels inside and outside the range 0..100
ParamLevels == {30, 50, 70, 110}

\* default_params of MeanReversionStrategy.__init__
DefaultParams == [rsi_oversold |-> 30, rsi_overbought |-> 70]

\* the dicts a caller can pass
ParamDicts == [ParamKeys -> ParamLevels \cup {None}]

\* d1.update(d2)
DictUpdate(d1, d2) == [k \in ParamKeys |-> IF d2[k] = None THEN d1[k] ELSE d2[k]]

\* a validation without the comparison of the two levels
ValidateParametersNoOrderCheck(d) ==
    IF d.rsi_overbought # None /\ d.rsi_oversold # None
      THEN IF d.rsi_oversold < 0 \/ d.rsi_oversold > 100 THEN FALSE
           ELSE IF d.rsi_overbought < 0 \/ d.rsi_overbought > 100 THEN FALSE
           ELSE TRUE
      ELSE TRUE

\* _validate_parameters(parameters): the RSI checks run only when the dict
\* holds both keys
ValidateParameters(d) ==
    IF d.rsi_overbought # None /\ d.rsi_oversold # None
      THEN IF d.rsi_oversold >= d.rsi_overbought THEN FALSE
           ELSE IF d.rsi_oversold < 0 \/ d.rsi_oversold > 100 THEN FALSE
           ELSE IF d.rsi_overbought < 0 \/ d.rsi_overbought > 100 THEN FALSE
           ELSE TRUE
      ELSE TRUE

NoCall == [pc |-> "idle", parameters |-> NaN]

NoReader == [pc |-> "idle", rsi_overbought |-> NaN, rsi_oversold |-> NaN]

\* MeanReversionStrategy(parameters=...): the defaults merged with the
\* caller's dict; the constructor validates nothing
PaInit ==
    /\ pc = "constructed"
    /\ \E d \in ParamDicts : parameters = DictUpdate(DefaultParams, d)
    /\ upd = NoCall
    /\ result = None
    /\ before = parameters
    /\ nupdates = 0
    /\ reader = NoReader
    /\ observable = {}
    /\ LoopIdle
    /\ BtIdle
    /\ SwIdle
    /\ SgIdle
    /\ RlIdle
    /\ ClIdle
    /\ ScIdle
    /\ MoreIdle

paFrame == <<pc, loopVars, btVars, swVars, sgVars, rlVars, clVars, scVars,
             moreVars>>

\* update_parameters(parameters) is entered
UpdateCall ==
    /\ upd.pc = "idle"
    /\ nupdates < MaxUpdates
    /\ \E d \in ParamDicts : upd' = [pc |-> "validate", parameters |-> d]
    /\ before' = parameters
    /\ nupdates' = nupdates + 1
    /\ UNCHANGED <<parameters, result, reader, observable, paFrame>>

\* "if not self._validate_parameters(parameters): return False"
UpdateValidate ==
    /\ upd.pc = "validate"
    /\ IF ValidateParameters(upd.parameters)
         THEN /\ upd' = [upd EXCEPT !.pc = "update"]
              /\ UNCHANGED result
         ELSE /\ upd' = [upd EXCEPT !.pc = "idle"]
              /\ result' = FALSE
    /\ UNCHANGED <<parameters, before, nupdates, reader, observable, paFrame>>

\* "self.parameters.update(parameters)" and "return True": the merge into
\* the dict the strategy keeps, taken as one step
UpdateMerge ==
    /\ upd.pc = "update"
    /\ parameters' = DictUpdate(parameters, upd.parameters)
    /\ observable' = IF reader.pc \in {"read_overbought", "read_oversold"}
                        THEN observable \cup {parameters'}
                        ELSE observable
    /\ upd' = [upd EXCEPT !.pc = "idle"]
    /\ result' = TRUE
    /\ UNCHANGED <<before, nupdates, reader, paFrame>>

\* another thread enters _generate_signals and is about to read parameters
ReaderStart ==
    /\ reader.pc = "idle"
    /\ reader' = [reader EXCEPT !.pc = "read_overbought"]
    /\ observable' = {parameters}
    /\ UNCHANGED <<parameters, upd, result, before, nupdates, paFrame>>

\* "rsi_overbought = self.parameters['rsi_overbought']"
ReaderReadOverbought ==
    /\ reader.pc = "read_overbought"
    /\ reader' = [reader EXCEPT !.pc = "read_oversold",
                                 !.rsi_overbought = parameters.rsi_overbought]
    /\ UNCHANGED <<parameters, upd, result, before, nupdates, observable,
                   paFrame>>

\* "rsi_oversold = self.parameters['rsi_oversold']"
ReaderReadOversold ==
    /\ reader.pc = "read_oversold"
    /\ reader' = [reader EXCEPT !.pc = "done",
                                 !.rsi_oversold = parameters.rsi_oversold]
    /\ UNCHANGED <<parameters, upd, result, before, nupdates, observable,
                   paFrame>>

PaNext ==
    \/ UpdateCall
    \/ UpdateValidate
    \/ UpdateMerge
    \/ ReaderStart
    \/ ReaderReadOverbought
    \/ ReaderReadOversold

SpecParams == PaInit /\ [][PaNext]_vars

\* ----------------------------------------------------------- Screener.screen
\* One strategy with the conditions Conditions, each on a timeframe of its
\* own.  What the collaborators do for a symbol is an input of the screen:
\* for each timeframe the data manager returns data, returns an empty frame
\* or raises, and each condition function returns true, returns false or
\* raises.

Conditions == {"c1", "c2"}

\* get_timeframes(): the timeframes of the conditions
Timeframes == {"H1", "D1"}

\* condition.timeframe
Timeframe(c) == IF c = "c1" THEN "H1" ELSE "D1"

Symbols == 1..MaxSymbols

\* a fetch of the symbol raises
FetchRaises(m) == \E t \in Timeframes : m.fetch[t] = "raise"

\* the keys of market_data: the timeframes fetched with data
MarketData(m) == {t \in Timeframes : m.fetch[t] = "data"}

\* a condition function is called only when every fetch returned and its
\* own timeframe has data
Markets ==
    {m \in [fetch : [Timeframes -> {"data", "empty", "raise"}],
            cond : [Conditions -> {"true", "false", "raise"}]] :
        \A c \in Conditions :
            m.cond[c] # "false" =>
                ~FetchRaises(m) /\ m.fetch[Timeframe(c)] = "data"}

\* the state of a future that raised
Exception == [state |-> "exception", matched |-> {}]

\* an evaluate that takes a raising condition for a met one
EvaluateNoCatch(outcome) == outcome # "false"

\* ScreenerCondition.evaluate: the function's value, False when it raises
Evaluate(outcome) == IF outcome = "raise" THEN FALSE ELSE outcome = "true"

\* a _screen_symbol that gives up on a symbol as soon as one timeframe has
\* no data
ScreenSymbolAllRequired(m) ==
    IF FetchRaises(m) THEN Exception
    ELSE IF MarketData(m) # Timeframes THEN [state |-> "result", matched |-> {}]
    ELSE [state |-> "result",
          matched |-> {c \in Conditions : Evaluate(m.cond[c])}]

\* _screen_symbol for a symbol with the collaborators' behaviour m: the
\* future's outcome, with the matched condition names of the strategy (no
\* names stands for the empty dict)
ScreenSymbol(m) ==
    IF FetchRaises(m) THEN Exception
    ELSE IF MarketData(m) = {} THEN [state |-> "result", matched |-> {}]
    ELSE [state |-> "result",
          matched |-> {c \in Conditions : /\ Timeframe(c) \in MarketData(m)
                                          /\ Evaluate(m.cond[c])}]

\* a filter that wants more than min_conditions matches
KeepStrict(symbol_result, minimum) == Cardinality(symbol_result) > minimum

\* "if total_conditions >= min_conditions"
Keep(symbol_result, minimum) == Cardinality(symbol_result) >= minimum

Pending == [state |-> "pending", matched |-> {}]

Running == [state |-> "running", matched |-> {}]

\* a pool that cancels the tasks not yet started when a task raises
FinishFutureCancelling(fs, s, outcome) ==
    [x \in DOMAIN fs |->
        IF x = s THEN outcome
        ELSE IF outcome.state = "exception" /\ fs[x].state = "pending"
          THEN Exception
        ELSE fs[x]]

\* the worker stores the task's outcome in the task's own future
FinishFuture(fs, s, outcome) == [fs EXCEPT ![s] = outcome]

\* screen(...) has submitted one task per symbol to the executor
ScInit ==
    /\ pc = "as_completed"
    /\ market \in [Symbols -> Markets]
    /\ min_conditions \in 0..Cardinality(Conditions)
    /\ max_workers \in {1, MaxSymbols}
    /\ futures = [s \in Symbols |-> Pending]
    /\ collected = {}
    /\ results = << >>
    /\ LoopIdle
    /\ BtIdle
    /\ SwIdle
    /\ SgIdle
    /\ RlIdle
    /\ ClIdle
    /\ PaIdle
    /\ MoreIdle

scFrame == <<loopVars, btVars, swVars, sgVars, rlVars, clVars, paVars,
             moreVars, market,
             min_conditions, max_workers>>

\* a free worker thread takes the task of symbol s
TaskStart(s) ==
    /\ futures[s].state = "pending"
    /\ Cardinality({x \in Symbols : futures[x].state = "running"}) < max_workers
    /\ futures' = [futures EXCEPT ![s] = Running]
    /\ UNCHANGED <<pc, collected, results, scFrame>>

\* the task of symbol s returns or raises
TaskFinish(s) ==
    /\ futures[s].state = "running"
    /\ futures' = FinishFuture(futures, s, ScreenSymbol(market[s]))
    /\ UNCHANGED <<pc, collected, results, scFrame>>

\* one iteration of "for future in as_completed(future_to_symbol)" for the
\* finished future of symbol s
Collect(s) ==
    /\ pc = "as_completed"
    /\ s \notin collected
    /\ futures[s].state \in {"result", "exception"}
    /\ collected' = collected \cup {s}
    /\ results' =
         IF futures[s].state = "result" /\ Keep(futures[s].matched, min_conditions)
           THEN [x \in DOMAIN results \cup {s} |->
                    IF x = s THEN futures[s].matched ELSE results[x]]
           ELSE results
    /\ UNCHANGED <<pc, futures, scFrame>>

\* the loop has handled every future; the with block ends and screen returns
ScreenReturn ==
    /\ pc = "as_completed"
    /\ collected = Symbols
    /\ pc' = "screen_returned"
    /\ UNCHANGED <<futures, collected, results, scFrame>>

ScNext ==
    \/ \E s \in Symbols : TaskStart(s)
    \/ \E s \in Symbols : TaskFinish(s)
    \/ \E s \in Symbols : Collect(s)
    \/ ScreenReturn

SpecScreen == ScInit /\ [][ScNext]_vars

\* -------------------------------------------------------------- Strategy.run
\* A strategy over the symbols Symbols, in the order of self.symbols, with one
\* timeframe.  What the strategy holds for a symbol decides what the
\* subclass hook _generate_signals does for it: no frame at all, a frame
\* shorter than min_data_points, or a frame long enough on which the hook
\* returns no signal, returns one signal or raises.

MarketFrames == {"missing", "short", "flat", "signal", "bad"}

\* the lists of open positions a symbol can have
PositionCounts == 0..MaxOpen

\* _validate_market_data: every symbol has a frame of at least
\* min_data_points rows for every timeframe
ValidateMarketData(md) ==
    \A s \in Symbols : md[s] \notin {"missing", "short"}

Sum(f, S) ==
    LET RECURSIVE Acc(_)
        Acc(T) == IF T = {} THEN 0
                  ELSE LET x == CHOOSE y \in T : TRUE IN f[x] + Acc(T \ {x})
    IN  Acc(S)

\* _check_position_limits
CheckPositionLimits(pos, limit) == Sum(pos, DOMAIN pos) >= limit

\* a per-symbol check that lets a symbol reach the limit plus one
CheckSymbolPositionLimitsOver(pos, symbol, limit) == pos[symbol] > limit

\* _check_symbol_position_limits
CheckSymbolPositionLimits(pos, symbol, limit) == pos[symbol] >= limit

\* the value of is_active after activate: set when _initialize returned, left
\* as it was when _initialize raised
Activate(active, initialized) == IF initialized THEN TRUE ELSE active

\* Strategy(...), inactive, after update_market_data and update_positions
\* have handed it the frames and the snapshot of open positions it runs on
RnInit ==
    /\ pc = "ready"
    /\ is_active = FALSE
    /\ last_call = "__init__"
    /\ market_data \in [Symbols -> MarketFrames]
    /\ positions \in [Symbols -> PositionCounts]
    /\ max_open_positions \in 1..MaxOpen
    /\ max_open_positions_per_symbol \in 1..MaxOpen
    /\ run_i = 0
    /\ signals = << >>
    /\ called = {}
    /\ run_result = None
    /\ LoopIdle
    /\ BtIdle
    /\ SwIdle
    /\ SgIdle
    /\ RlIdle
    /\ ClIdle
    /\ PaIdle
    /\ ScIdle
    /\ MdIdle
    /\ TrIdle

rnFrame == <<loopVars, btVars, swVars, sgVars, rlVars, clVars, paVars, scVars,
             mdVars, trVars, max_open_positions,
             max_open_positions_per_symbol>>

\* no call of the strategy is running
RnReady == pc \in {"ready", "run_returned"}

\* the locals and the returned list of an earlier run are gone
RunForgotten ==
    run_i' = 0 /\ signals' = << >> /\ called' = {} /\ run_result' = None

\* activate(), _initialize returning or raising
CallActivate ==
    /\ RnReady
    /\ \E initialized \in BOOLEAN :
        /\ is_active' = Activate(is_active, initialized)
        /\ last_call' = IF initialized THEN "activate" ELSE "activate_failed"
    /\ pc' = "ready"
    /\ RunForgotten
    /\ UNCHANGED <<market_data, positions, rnFrame>>

\* deactivate()
CallDeactivate ==
    /\ RnReady
    /\ is_active' = FALSE
    /\ last_call' = "deactivate"
    /\ pc' = "ready"
    /\ RunForgotten
    /\ UNCHANGED <<market_data, positions, rnFrame>>

\* run() up to its loop: the early returns of an inactive strategy and of
\* insufficient market data
RunCall ==
    /\ RnReady
    /\ signals' = << >>
    /\ called' = {}
    /\ IF is_active /\ ValidateMarketData(market_data)
         THEN pc' = "run_loop" /\ run_i' = 1 /\ run_result' = None
         ELSE pc' = "run_returned" /\ run_i' = 0 /\ run_result' = << >>
    /\ UNCHANGED <<is_active, last_call, market_data, positions, rnFrame>>

\* one iteration of "for symbol in self.symbols"
RunSymbol ==
    /\ pc = "run_loop"
    /\ run_i <= MaxSymbols
    /\ LET symbol == run_i
       IN  IF CheckPositionLimits(positions, max_open_positions)
             THEN \* break, then return signals
                  /\ pc' = "run_returned"
                  /\ run_result' = signals
                  /\ UNCHANGED <<run_i, signals, called>>
           ELSE IF CheckSymbolPositionLimits(positions, symbol,
                                             max_open_positions_per_symbol)
             THEN \* continue
                  /\ run_i' = run_i + 1
                  /\ UNCHANGED <<pc, signals, called, run_result>>
           ELSE IF market_data[symbol] = "bad"
             THEN \* _generate_signals raises: except Exception, return []
                  /\ called' = called \cup {symbol}
                  /\ pc' = "run_returned"
                  /\ run_result' = << >>
                  /\ UNCHANGED <<run_i, signals>>
           ELSE /\ called' = called \cup {symbol}
                /\ signals' = IF market_data[symbol] = "signal"
                                THEN Append(signals, symbol) ELSE signals
                /\ run_i' = run_i + 1
                /\ UNCHANGED <<pc, run_result>>
    /\ UNCHANGED <<is_active, last_call, market_data, positions, rnFrame>>

\* the loop is over: return signals
RunReturn ==
    /\ pc = "run_loop"
    /\ run_i > MaxSymbols
    /\ pc' = "run_returned"
    /\ run_result' = signals
    /\ UNCHANGED <<is_active, last_call, market_data, positions, run_i,
                   signals, called, rnFrame>>

RnNext ==
    \/ CallActivate
    \/ CallDeactivate
    \/ RunCall
    \/ RunSymbol
    \/ RunReturn

SpecRun == RnInit /\ [][RnNext]_vars

\* --------------------------------------------------------- MarketData.update
\* A row of a frame is a bar with its timestamp, the index of the frame.

Timestamps == 1..MaxTimestamp

BarRows == [timestamp : Timestamps, bar : {"a", "b"}]

\* the frames handed to update: any rows in any order, up to MaxBatch of them
Batches == UNION {[1..k -> BarRows] : k \in 0..MaxBatch}

\* the rows of a frame at the positions keep, in the frame's order
RECURSIVE Rows(_, _, _)
Rows(frame, keep, k) ==
    IF k > Len(frame) THEN << >>
    ELSE IF k \in keep THEN <<frame[k]>> \o Rows(frame, keep, k + 1)
    ELSE Rows(frame, keep, k + 1)

\* combined[~combined.index.duplicated(keep='last')]
KeepLast(frame) ==
    Rows(frame,
         {k \in DOMAIN frame :
            \A j \in DOMAIN frame : j > k => frame[j].timestamp # frame[k].timestamp},
         1)

\* sort_index(): ascending by timestamp, rows of one timestamp in their order
SortIndex(frame) ==
    LET rank(k) == Cardinality({j \in DOMAIN frame :
                       \/ frame[j].timestamp < frame[k].timestamp
                       \/ frame[j].timestamp = frame[k].timestamp /\ j <= k})
    IN  [r \in DOMAIN frame |-> frame[CHOOSE k \in DOMAIN frame : rank(k) = r]]

\* MarketData.update: the new frame as it is when self.data is empty, else
\* the concatenation without its earlier duplicates, sorted
Update(old, new) ==
    IF old = << >> THEN new ELSE SortIndex(KeepLast(old \o new))

\* the bars handed over so far, each timestamp with its latest bar
Supply(sup, frame) ==
    [t \in Timestamps |->
        LET at == {k \in DOMAIN frame : frame[k].timestamp = t}
        IN  IF at = {} THEN sup[t]
            ELSE frame[CHOOSE k \in at : \A j \in at : j <= k].bar]

\* a frame with ascending timestamps, none twice
Ordered(frame) ==
    \A j, k \in DOMAIN frame : j < k => frame[j].timestamp < frame[k].timestamp

\* MarketData(symbol, timeframe) or MarketData(symbol, timeframe, data) with
\* an ordered series
MdInit ==
    /\ pc = "market_data"
    /\ data \in {b \in Batches : Ordered(b)}
    /\ supplied = Supply([t \in Timestamps |-> ""], data)
    /\ updates = 0
    /\ LoopIdle
    /\ BtIdle
    /\ SwIdle
    /\ SgIdle
    /\ RlIdle
    /\ ClIdle
    /\ PaIdle
    /\ ScIdle
    /\ RnIdle
    /\ TrIdle

\* update(data)
CallUpdate ==
    /\ pc = "market_data"
    /\ updates < MaxUpdates
    /\ \E new \in Batches :
        /\ data' = Update(data, new)
        /\ supplied' = Supply(supplied, new)
    /\ updates' = updates + 1
    /\ UNCHANGED <<pc, loopVars, btVars, swVars, sgVars, rlVars, clVars,
                   paVars, scVars, rnVars, trVars>>

MdNext == CallUpdate

SpecMarketData == MdInit /\ [][MdNext]_vars

\* ------------------------------------- RiskManagement.calculate_trailing_stop
\* Prices are whole numbers and stops are counted in hundredths of a price
\* unit, so that entry_price - 0.01, a percentage of a price and an
\* acceleration of 0.02 are whole numbers of hundredths.

TrailPrices == 1..MaxTrailPrice

Methods == {"fixed_pips", "percent", "atr", "chandelier", "parabolic_sar",
            "other"}

\* pips * pip_value, or atr * multiplier, in hundredths
Offsets == {50 * k : k \in 0..MaxTrailDist}

\* params['percent'], and params['acceleration'] in hundredths
Rates == {2, 20}

\* what a call is made with besides the position: the current price, the
\* parameters of the method, what Indicators.atr(...).iloc[-1] does (a value,
\* NaN, or an IndexError on an empty frame) and the highest high or lowest
\* low of the chandelier window.  A field the method does not read is fixed.
TrailInputs(m) ==
    {c \in [current_price : TrailPrices, offset : Offsets, rate : Rates,
            atr : {"value", "nan", "raise"}, extreme : TrailPrices] :
        /\ m \notin {"percent", "parabolic_sar"} => c.rate = 2
        /\ m \in {"percent", "parabolic_sar"} => c.offset = 0
        /\ m \notin {"atr", "chandelier"} => c.atr = "value"
        /\ m # "chandelier" => c.extreme = 1}

\* calculated_stop of the method, NaN when the ATR is
CalculatedStop(dir, m, entry, c) ==
    LET sign == IF dir = "buy" THEN -1 ELSE 1
        price == 100 * c.current_price
    IN  IF m = "percent" THEN c.current_price * (100 + sign * c.rate)
        ELSE IF m = "atr"
          THEN IF c.atr = "nan" THEN NaN ELSE price + sign * c.offset
        ELSE IF m = "chandelier"
          THEN IF c.atr = "nan" THEN NaN ELSE 100 * c.extreme + sign * c.offset
        ELSE IF m = "parabolic_sar"
          THEN IF dir = "buy"
                 THEN price - (c.current_price - entry) * c.rate
                 ELSE price + (entry - c.current_price) * c.rate
        ELSE price + sign * c.offset

\* a stop that follows the price in both directions
RatchetFollow(dir, new_stop, calculated_stop) ==
    IF calculated_stop = NaN THEN new_stop ELSE calculated_stop

\* buy: max(new_stop, calculated_stop); sell: min(new_stop, calculated_stop)
\* if new_stop > 0 else calculated_stop.  max and min keep their first
\* argument when the second is NaN.
Ratchet(dir, new_stop, calculated_stop) ==
    IF dir = "buy"
      THEN IF calculated_stop # NaN /\ calculated_stop > new_stop
             THEN calculated_stop ELSE new_stop
      ELSE IF new_stop > 0
             THEN IF calculated_stop # NaN /\ calculated_stop < new_stop
                    THEN calculated_stop ELSE new_stop
             ELSE calculated_stop

\* calculate_trailing_stop(data, entry_price, current_price, direction,
\* method, params, current_stop) for a buy or a sell
CalculateTrailingStop(dir, m, entry, stop, c) ==
    LET new_stop == IF stop # None /\ stop # 0 THEN stop
                    ELSE IF dir = "buy" THEN 100 * entry - 1
                    ELSE 100 * entry + 1
    IN  IF m \in {"atr", "chandelier"} /\ c.atr = "raise"
          THEN \* except Exception: return current_stop or 0.0
               IF stop # None THEN stop ELSE 0
          ELSE Ratchet(dir, new_stop, CalculatedStop(dir, m, entry, c))

\* a position with no stop yet, or with a stop set when it was opened
TrInit ==
    /\ pc = "trailing"
    /\ direction \in {"buy", "sell"}
    /\ method \in Methods
    /\ trail_entry \in TrailPrices
    /\ current_price = 0
    /\ current_stop \in {None} \cup {100 * p : p \in TrailPrices}
    /\ trail_calls = 0
    /\ LoopIdle
    /\ BtIdle
    /\ SwIdle
    /\ SgIdle
    /\ RlIdle
    /\ ClIdle
    /\ PaIdle
    /\ ScIdle
    /\ RnIdle
    /\ MdIdle

\* one call, its result becoming the stop of the position
CallCalculateTrailingStop ==
    /\ pc = "trailing"
    /\ trail_calls < MaxTrailCalls
    /\ current_stop = None \/ current_stop > 0
    /\ \E c \in TrailInputs(method) :
        /\ current_price' = c.current_price
        /\ current_stop' = CalculateTrailingStop(direction, method, trail_entry,
                                                 current_stop, c)
    /\ trail_calls' = trail_calls + 1
    /\ UNCHANGED <<pc, direction, method, trail_entry, loopVars, btVars,
                   swVars, sgVars, rlVars, clVars, paVars, scVars, rnVars,
                   mdVars>>

TrNext == CallCalculateTrailingStop

SpecTrail == TrInit /\ [][TrNext]_vars

\* ------------------------------------------------- claims on the simulator

\* the row just read touches both the stop and the target of the position
\* that was open before it
BothTouched ==
    /\ pc = "loop" /\ position # 0 /\ sl_price # None /\ tp_price # None
    /\ \/ position = 1 /\ cur'.Low <= sl_price /\ cur'.High >= tp_price
       \/ position = -1 /\ cur'.High >= sl_price /\ cur'.Low <= tp_price

\* C1: on a bar after the entry bar that touches both the stop and the target
\* of the open position (long: low <= stop and high >= target; short: high >=
\* stop and low <= target) the position is closed at the stop price with exit
\* type sl, and its P&L is the P&L of an exit at the stop.
C1_StopFirst ==
    [][BothTouched =>
         /\ out'.exit_type = "sl"
         /\ out'.exit_price = sl_price
         /\ pnl'[i'] = Pnl(position, entry_price, sl_price)
         /\ exited' = exited + 1]_vars

C1_Witness ==
    /\ position = 0 /\ exited = 1 /\ entered = 1
    /\ sl_price # None /\ tp_price # None /\ sl_price < tp_price
    /\ cur.Low <= sl_price /\ cur.High >= tp_price
    /\ out.exit_type = "sl" /\ out.exit_price = sl_price

\* C2: a position is opened on row i only when the simulator is flat at that
\* point of the row (it was flat, or the open position has just been closed
\* on this row) and row i-1 carries a signal; the entry price is row i's open,
\* the direction, stop and target are those of the signal of row i-1.
C2_DeferredEntry ==
    [][entered' # entered =>
         /\ pc = "loop"
         /\ prev'.signal # 0
         /\ position = 0 \/ exited' = exited + 1
         /\ position' = prev'.signal
         /\ entry_price' = cur'.Open
         /\ out'.entry_price = cur'.Open
         /\ out'.position = prev'.signal
         /\ sl_price' = prev'.sl_price
         /\ tp_price' = prev'.tp_price]_vars

C2_Witness ==
    /\ pc = "loop" /\ entered = 1 /\ position = -1
    /\ out.entry_price = cur.Open /\ entry_price = cur.Open
    /\ cur.Open # cur.Close

\* C3: at most one simulated position is open in every state: the positions
\* entered exceed the positions exited by at most one, and by exactly one
\* when the simulator holds a position.
C3_OnePosition ==
    /\ entered - exited \in {0, 1}
    /\ pc # "done" => (position # 0 <=> entered = exited + 1)

\* row 2 carried a signal while the position entered on row 2 was open, and
\* the iteration of row 3 kept that position
C3_Witness ==
    /\ i = 3 /\ prev.signal # 0 /\ nsignals = 2
    /\ position # 0 /\ entered = 1 /\ exited = 0

\* C4: when the backtest has returned every entered position has been exited
\* and the last row records no position; a position still open after the
\* last row is closed at the last row's close with exit type close.
C4_EndOfData ==
    pc = "done" =>
        /\ entered = exited
        /\ out.position = 0
        /\ position # 0 => /\ out.exit_type = "close"
                           /\ out.exit_price = cur.Close
                           /\ pnl[n] = Pnl(position, entry_price, cur.Close)

C4_Witness ==
    /\ pc = "done" /\ position = -1 /\ n = MaxBars
    /\ out.exit_type = "close" /\ entered = exited

\* C5: a frame with exactly one signal whose position is closed only by the
\* end of the data reports one trade, closed with exit type close at the
\* last row's close.
C5_OneTrade ==
    (pc = "done" /\ nsignals = 1 /\ entered = 1 /\ exited = 1 /\ position # 0) =>
        /\ out.exit_type = "close"
        /\ out.exit_price = cur.Close
        /\ metrics.total_trades = 1

\* C6: the final cumulative P&L is the sum of the realized P&L of every
\* position closed during the run.
C6_CumulativePnl ==
    pc = "done" => cumulative_pnl[n] = realized /\ metrics.total_return = realized

\* -------------------------------------------------- claims on the swingline

\* C7: the scan starts in Down at the first bar; on every later bar the
\* direction turns Up -> Down exactly when the bar's high is below the
\* higher-low tracker, the bar closes below its open and below the previous
\* bar's low, turns Down -> Up exactly when the bar's low is above the
\* lower-high tracker, the bar closes above its open and above the previous
\* bar's high, and otherwise stays; a turn resets the two trackers of the new
\* direction to the turning bar's high and low.
C7_SwingTurns ==
    [][pc = "swing_loop" =>
            /\ swingline'[1] = -1
            /\ swingline'[i'] = current_swing'
            /\ current_swing = 1 =>
                 (current_swing' = -1 <=>
                     /\ cur'.High < highest_low'
                     /\ cur'.Close < cur'.Open
                     /\ cur'.Close < cur.Low)
            /\ current_swing = -1 =>
                 (current_swing' = 1 <=>
                     /\ cur'.Low > lowest_high'
                     /\ cur'.Close > cur'.Open
                     /\ cur'.Close > cur.High)
            /\ (current_swing = 1 /\ current_swing' = -1) =>
                 lowest_low' = cur'.Low /\ lowest_high' = cur'.High
            /\ (current_swing = -1 /\ current_swing' = 1) =>
                 highest_high' = cur'.High /\ highest_low' = cur'.Low]_vars

\* the third bar turned an up swing down
C7_Witness ==
    /\ pc \in {"swing_loop", "swing_done"} /\ i = 3
    /\ swingline[2] = 1 /\ swingline[3] = -1 /\ current_swing = -1
    /\ lowest_low = cur.Low /\ lowest_high = cur.High

\* --------------------------------------------- claims on the ADR and signals

\* the ADR of bar j of a frame, computed over the period the call used
AdrAt(frame, j) == AverageDailyRange(frame, adr_period).ADR[j]

\* C9: the ADR of bar j is the mean of the ranges of the adr_period bars that
\* end at bar j-1, a bar with fewer than adr_period bars before it has no
\* value, and the ADR of bar j is the same for every frame that has the same
\* bars before j, whatever its bar j is.
C9_NoLookAhead ==
    pc = "adr_done" =>
        \A j \in 1..Len(df) :
            /\ j <= adr_period => adr_data.ADR[j] = NoValue
            /\ j > adr_period =>
                 adr_data.ADR[j] =
                    [sum |-> SumOver([t \in 1..Len(df) |-> df[t].High - df[t].Low],
                                     j - adr_period, j - 1),
                     count |-> adr_period]
            /\ \A h \in Prices, l \in Prices :
                 l <= h =>
                 AdrAt(Append(SubSeq(df, 1, j - 1),
                              [Open |-> l, High |-> h, Low |-> l, Close |-> h]), j)
                    = adr_data.ADR[j]

\* the ADR of the third bar is the mean of the first two ranges, and the
\* third bar's own range differs from the first bar's
C9_Witness ==
    /\ pc = "adr_done" /\ adr_period = 2 /\ Len(df) = 3
    /\ adr_data.ADR[3].count = 2
    /\ adr_data.ADR[3].sum = 1
    /\ df[3].High - df[3].Low # df[1].High - df[1].Low

\* the swing state after the scan of the first k rows of a frame
RECURSIVE SwingScan(_, _)
SwingScan(frame, k) ==
    IF k = 1
      THEN [current_swing |-> -1, highest_high |-> frame[1].High,
            lowest_low |-> frame[1].Low, lowest_high |-> frame[1].High,
            highest_low |-> frame[1].Low]
      ELSE SwingBar(SwingScan(frame, k - 1), frame[k - 1], frame[k])

\* df['swingline'].diff() at row j: 2 is a turn from down to up, -2 a turn
\* from up to down
SwingChange(frame, j) ==
    IF j = 1 THEN 0
             ELSE SwingScan(frame, j).current_swing
                    - SwingScan(frame, j - 1).current_swing

Zones == {"oversold", "neutral", "overbought"}

\* the range of bar j is more than RangeThreshold percent of its ADR
RangeExceeds(frame, period, j) ==
    LET a == AverageDailyRange(frame, period).ADR[j]
    IN  /\ a.count > 0 /\ a.sum > 0
        /\ (frame[j].High - frame[j].Low) * 100 * a.count > RangeThreshold * a.sum

SwingTurned(frame, j, change) ==
    \E t \in Max(1, j - SwinglineLookback)..j : SwingChange(frame, t) = change

LongRule(frame, period, confirm, zone, j) ==
    /\ RangeExceeds(frame, period, j)
    /\ frame[j].Close < frame[j].Open
    /\ zone = "oversold"
    /\ confirm => SwingTurned(frame, j, 2)

ShortRule(frame, period, confirm, zone, j) ==
    /\ RangeExceeds(frame, period, j)
    /\ frame[j].Close > frame[j].Open
    /\ zone = "overbought"
    /\ confirm => SwingTurned(frame, j, -2)

\* the signal generate_signals returned for row j: none when it returned no
\* signal column
SignalAt(j) == IF j \in DOMAIN signal_col THEN signal_col[j] ELSE 0

\* C10: for every ADR period, every oscillator zone of a bar and either
\* setting of the swing confirmation, generate_signals emits a long signal
\* at bar j exactly when the bar's range exceeds the threshold percentage of
\* its ADR, the bar closes below its open, the oscillator is oversold and,
\* when confirmation is required, the swing turned up within the lookback
\* window ending at j; a short signal exactly under the mirrored conditions.
C10_SignalRule ==
    pc = "raised" =>
        \A j \in 1..Len(df), period \in 1..MaxPeriod, zone \in Zones,
           confirm \in BOOLEAN :
            /\ SignalAt(j) = 1 <=> LongRule(df, period, confirm, zone, j)
            /\ SignalAt(j) = -1 <=> ShortRule(df, period, confirm, zone, j)

\* ----------------------------------------------- claims on the signal loop

\* the swingline turned by change within the lookback window ending at row k
TurnedWithin(k, change) ==
    \E t \in Max(2, k - SwinglineLookback)..k :
        swingline[t] - swingline[t - 1] = change

\* C11: every row the signal loop processes carries exactly one of long (1),
\* short (-1) and none (0); it is long exactly when the row's range exceeds
\* the threshold, it closes below its open, the oscillator is oversold and,
\* if confirmation is required, the swingline turned up within the lookback
\* window, short exactly under the mirrored conditions, whatever number of
\* earlier rows carry a signal; the vectorised rule of the ADR strategy
\* gives long and short under the same conditions without the confirmation.
C11_OneSignalPerBar ==
    [][pc = "rule_loop" =>
         LET row  == rule_row'
             long == /\ row.range_pct > RangeThreshold
                     /\ row.Close < row.Open
                     /\ row.oversold
             short == /\ row.range_pct > RangeThreshold
                      /\ row.Close > row.Open
                      /\ row.overbought
         IN  /\ rule_out'.signal \in {-1, 0, 1}
             /\ ~(long /\ short)
             /\ rule_out'.signal = 1 <=>
                    /\ long
                    /\ require_swingline_confirmation => TurnedWithin(i', 2)
             /\ rule_out'.signal = -1 <=>
                    /\ short
                    /\ require_swingline_confirmation => TurnedWithin(i', -2)
             /\ AdrStrategySignal(row) = 1 <=> long
             /\ AdrStrategySignal(row) = -1 <=> short
             /\ AdrStrategySignal(row) \in {-1, 0, 1}]_vars

\* the row before carries a long signal and this row carries one too, with
\* oversold and overbought both set
C11_Witness ==
    /\ emitted = 1 /\ i = n /\ rule_out.signal = 1
    /\ rule_row.oversold /\ rule_row.overbought
    /\ require_swingline_confirmation

\* the last change of the swingline within the lookback window ending at row
\* k, 0 when it did not turn there
LastTurn(k) ==
    LET turns == {t \in Max(2, k - SwinglineLookback)..k :
                    swingline[t] # swingline[t - 1]}
    IN  IF turns = {} THEN 0
        ELSE LET t == CHOOSE u \in turns : \A v \in turns : v <= u
             IN  swingline[t] - swingline[t - 1]

\* C27 as stated: with confirmation required a long signal is on a row whose
\* swingline direction is up and a short signal on a row whose direction is
\* down.
C27_SwingAgrees ==
    (pc \in {"rule_loop", "rule_done"} /\ require_swingline_confirmation) =>
        /\ rule_out.signal = 1 => swingline[i] = 1
        /\ rule_out.signal = -1 => swingline[i] = -1

\* C27 amended: with confirmation required the swingline turned up within
\* the lookback window of a long signal and down within that of a short
\* signal; the direction on the signal row agrees with the signal exactly
\* when that turn is the last one of the window.
C27_SwingTurned ==
    (pc \in {"rule_loop", "rule_done"} /\ require_swingline_confirmation) =>
        /\ rule_out.signal = 1 =>
              /\ TurnedWithin(i, 2)
              /\ swingline[i] = 1 <=> LastTurn(i) = 2
        /\ rule_out.signal = -1 =>
              /\ TurnedWithin(i, -2)
              /\ swingline[i] = -1 <=> LastTurn(i) = -2

\* a long signal on a row where the swingline is down again
C27_Witness ==
    /\ pc \in {"rule_loop", "rule_done"} /\ require_swingline_confirmation
    /\ rule_out.signal = 1 /\ swingline[i] = -1

\* ----------------------------------------------- claims on the risk helpers

\* a call of _calculate_sl_tp with a positive ADR has returned
SlTpReturned ==
    pc = "returned" /\ call.fn = "_calculate_sl_tp" /\ call.adr.sum > 0

\* C12 as stated: for a long signal at price p with a positive ADR the stop
\* is below p, the target above p and (target - p) is risk_reward times
\* (p - stop) up to one tick; mirrored for a short signal.
C12_Geometry ==
    SlTpReturned =>
        LET p  == call.price
            rr == call.rr
        IN  IF call.is_buy
              THEN /\ ret.sl_price < p /\ p < ret.tp_price
                   /\ Abs((ret.tp_price - p) * rr.den
                            - rr.num * (p - ret.sl_price)) <= rr.den
              ELSE /\ ret.tp_price < p /\ p < ret.sl_price
                   /\ Abs((p - ret.tp_price) * rr.den
                            - rr.num * (ret.sl_price - p)) <= rr.den

\* C12 amended: with the stop distance d = ADR * stop multiplier ticks, the
\* stop is within half a tick of p - d and the target within half a tick of
\* p + d * risk_reward (long; mirrored for a short), so stop <= p <= target,
\* the stop is off p when d is more than half a tick, the target is off p
\* when d * risk_reward is more than half a tick, and (target - p) differs
\* from risk_reward * (p - stop) by at most (risk_reward + 1) / 2 ticks.
C12_GeometryRounded ==
    SlTpReturned =>
        LET p    == call.price
            rr   == call.rr
            dn   == call.adr.sum * call.mult.num
            dd   == call.adr.count * call.mult.den
            side == IF call.is_buy THEN 1 ELSE -1
            sd   == side * (p - ret.sl_price)
            td   == side * (ret.tp_price - p)
        IN  /\ 2 * Abs(sd * dd - dn) <= dd
            /\ 2 * Abs(td * dd * rr.den - dn * rr.num) <= dd * rr.den
            /\ sd >= 0 /\ td >= 0
            /\ 2 * dn > dd => sd > 0
            /\ 2 * dn * rr.num > dd * rr.den => td > 0
            /\ 2 * Abs(td * rr.den - rr.num * sd) <= rr.num + rr.den

\* a long at an even price with a stop distance of half a tick: the stop is
\* rounded onto the price
C12_Witness ==
    /\ SlTpReturned /\ call.is_buy
    /\ 2 * call.adr.sum * call.mult.num = call.adr.count * call.mult.den
    /\ ret.sl_price = call.price /\ ret.tp_price > call.price

\* a call of calculate_position_size has returned
SizingReturned == pc = "returned" /\ call.fn = "calculate_position_size"

C14_FailsClosed ==
    (SizingReturned /\ call.entry_price = call.stop_loss_price) => ret = 0

C14_Witness ==
    /\ SizingReturned /\ call.entry_price = call.stop_loss_price
    /\ call.account_balance = MaxBalance /\ call.symbol_info.min_lot > 0
    /\ call.symbol_info.contract_size = 0 /\ ret = 0

\* the checks of validate_risk_parameters that fail on the arguments c
FailedChecks(c) ==
    LET info == c.symbol_info
        dist == Abs(c.entry_price - c.stop_loss_price)
    IN  {x \in {"risk_per_trade"} : c.risk_per_trade > MaxRiskPerTrade}
          \cup {x \in {"stop_distance"} :
                   dist < Get(info, "min_stop_distance", DefaultMinStopDistance)}
          \cup {x \in {"risk_amount"} :
                   dist * c.position_size
                        * Get(info, "contract_size", DefaultContractSize)
                     > c.account_balance * MaxRiskPerTrade}
          \cup {x \in {"position_size"} :
                   \/ c.position_size < Get(info, "min_lot", DefaultMinLot)
                   \/ c.position_size > Get(info, "max_lot", DefaultMaxLot)}

\* C15: validate_risk_parameters answers ok exactly when none of the four
\* checks fails, and the reason it returns names every check that fails.
C15_AllViolations ==
    (pc = "returned" /\ call.fn = "validate_risk_parameters") =>
        /\ ret.ok <=> FailedChecks(call) = {}
        /\ ret.reason = FailedChecks(call)

\* a size was calculated and validated, under a risk within the ceiling and
\* a stop no nearer than the minimum stop distance
SizedWithinCeiling ==
    /\ pc = "returned" /\ call.fn = "validate_calculated_size"
    /\ call.risk_per_trade <= MaxRiskPerTrade
    /\ Abs(call.entry_price - call.stop_loss_price)
         >= Get(call.symbol_info, "min_stop_distance", DefaultMinStopDistance)

\* stop distance * size * contract_size of the calculated size
SizedRisk ==
    Abs(call.entry_price - call.stop_loss_price) * call.position_size
        * Get(call.symbol_info, "contract_size", DefaultContractSize)

ValidSet(d) ==
    /\ (d.rsi_oversold # None /\ d.rsi_overbought # None) =>
            d.rsi_oversold < d.rsi_overbought
    /\ d.rsi_oversold # None => (0 <= d.rsi_oversold /\ d.rsi_oversold <= 100)
    /\ d.rsi_overbought # None =>
            (0 <= d.rsi_overbought /\ d.rsi_overbought <= 100)

\* C16: a call of update_parameters that does not pass validation returns
\* False and leaves the stored parameter set as it was when the call was
\* entered; a call given both levels in the wrong order or out of range
\* does not pass.
C16_RejectedUnchanged ==
    [][(upd.pc = "validate" /\ upd'.pc # "validate") =>
         /\ (upd.parameters.rsi_oversold # None
                /\ upd.parameters.rsi_overbought # None
                /\ ~ValidSet(upd.parameters)) => upd'.pc = "idle"
         /\ upd'.pc = "idle" =>
                /\ result' = FALSE
                /\ parameters' = before
                /\ parameters' = parameters]_vars

\* an update of both levels was rejected after an accepted one
C16_Witness ==
    /\ nupdates = 2 /\ upd.pc = "idle" /\ result = FALSE
    /\ upd.parameters.rsi_oversold = 70 /\ upd.parameters.rsi_overbought = 30
    /\ parameters = before /\ parameters # DefaultParams

\* C17: a reader that has read the two levels while update_parameters ran
\* holds a pair of levels that is one of the parameter sets the strategy
\* has held since the reader started.
C17_AtomicForReaders ==
    reader.pc = "done" =>
        [rsi_oversold |-> reader.rsi_oversold,
         rsi_overbought |-> reader.rsi_overbought] \in observable

\* C18: the stored parameter set satisfies the validity rules in every
\* state, after construction and after every update call.
C18_StoredValid == pc = "constructed" => ValidSet(parameters)

\* ---------------------------------------------------- claims on the screener

\* the conditions that returned true for symbol s
TrueConditions(s) == {c \in Conditions : market[s].cond[c] = "true"}

\* a condition function raises for symbol s
ConditionRaises(s) ==
    ~FetchRaises(market[s]) /\ \E c \in Conditions : market[s].cond[c] = "raise"

\* C19 as stated: when screen has returned every symbol's task has run, a
\* symbol with data is reported with the conditions that returned true (a
\* raising condition is not among them), and a symbol none of whose
\* conditions returned true is absent from the result.
C19_Isolation ==
    pc = "screen_returned" =>
        \A s \in Symbols :
            /\ futures[s].state \in {"result", "exception"}
            /\ s \in DOMAIN results => results[s] = TrueConditions(s)
            /\ TrueConditions(s) = {} => s \notin DOMAIN results

\* C19 amended: the same, the absence holding when min_conditions >= 1.
C19_IsolationMin ==
    pc = "screen_returned" =>
        \A s \in Symbols :
            /\ futures[s].state \in {"result", "exception"}
            /\ s \in DOMAIN results => results[s] = TrueConditions(s)
            /\ (TrueConditions(s) = {} /\ min_conditions >= 1) =>
                    s \notin DOMAIN results
            /\ (~FetchRaises(market[s]) /\ TrueConditions(s) # {}
                  /\ Cardinality(TrueConditions(s)) >= min_conditions) =>
                    s \in DOMAIN results

\* both conditions raise for symbol 1, which is absent; a condition raises
\* for symbol 2 and the other one matches, and symbol 2 is reported
C19_Witness ==
    /\ pc = "screen_returned" /\ min_conditions = 1
    /\ \A c \in Conditions : market[1].cond[c] = "raise"
    /\ ConditionRaises(2)
    /\ DOMAIN results = {2} /\ Cardinality(results[2]) = 1

\* the symbols a screen must report: their own task succeeded with at least
\* min_conditions matched conditions
Reported ==
    {s \in Symbols : /\ ~FetchRaises(market[s])
                     /\ Cardinality(IF MarketData(market[s]) # {}
                                       THEN TrueConditions(s) ELSE {})
                          >= min_conditions}

\* C20: screen returns only after every task has completed or failed, a
\* step of one task changes no other task's future, and whatever the order
\* of the steps was the returned mapping holds exactly the symbols whose own
\* task succeeded with at least min_conditions matches, each with its
\* matched conditions.
C20_Concurrency ==
    [][/\ pc' = "screen_returned" =>
            /\ \A s \in Symbols : futures'[s].state \in {"result", "exception"}
            /\ DOMAIN results' = Reported
            /\ \A s \in Reported :
                   results'[s] = IF MarketData(market[s]) # {}
                                   THEN TrueConditions(s) ELSE {}
       /\ \A s \in Symbols :
            futures'[s] # futures[s] =>
                /\ \A x \in Symbols \ {s} : futures'[x] = futures[x]
                /\ futures'[s].state = "exception" <=>
                       (futures[s].state = "running" /\ FetchRaises(market[s]))
      ]_vars

\* the task of symbol 1 failed before the task of symbol 2 was started, and
\* symbol 2 is reported
C20_Witness ==
    /\ pc = "screen_returned" /\ max_workers = 1
    /\ futures[1].state = "exception" /\ futures[2].state = "result"
    /\ 2 \in DOMAIN results /\ 1 \notin DOMAIN results
    /\ results[2] = Conditions

\* a fetch of symbol s returned no data
SomeEmpty(s) == \E t \in Timeframes : market[s].fetch[t] = "empty"

\* C21 as stated: a symbol for which the fetch of any required timeframe
\* returns no data does not appear in the results of the screen (taken for
\* a screen that asks for at least one met condition).
C21_SkipsInsufficient ==
    (pc = "screen_returned" /\ min_conditions >= 1) =>
        \A s \in Symbols :
            (~FetchRaises(market[s]) /\ SomeEmpty(s)) => s \notin DOMAIN results

\* C21 amended: a timeframe without data only drops the conditions bound to
\* it.  A symbol whose fetches returned is reported exactly when the met
\* conditions of its timeframes with data number at least min_conditions,
\* with those conditions; a symbol without data on every timeframe is
\* absent when min_conditions >= 1.
C21_SkipsNoData ==
    pc = "screen_returned" =>
        \A s \in Symbols :
            ~FetchRaises(market[s]) =>
                LET met == {c \in Conditions :
                              /\ market[s].fetch[Timeframe(c)] = "data"
                              /\ market[s].cond[c] = "true"}
                IN  /\ s \in DOMAIN results <=>
                          Cardinality(met) >= min_conditions
                    /\ s \in DOMAIN results => results[s] = met
                    /\ (MarketData(market[s]) = {} /\ min_conditions >= 1) =>
                          s \notin DOMAIN results

\* symbol 1 has no data on D1 and is reported for its H1 condition; symbol 2
\* has no data at all and is absent
C21_Witness ==
    /\ pc = "screen_returned" /\ min_conditions = 1
    /\ market[1].fetch = [t \in Timeframes |-> IF t = "H1" THEN "data" ELSE "empty"]
    /\ market[1].cond["c1"] = "true"
    /\ \A t \in Timeframes : market[2].fetch[t] = "empty"
    /\ DOMAIN results = {1} /\ results[1] = {"c1"}

\* C23: a backtest that ends with a winning trade and no losing trade
\* reports an infinite profit factor; one that ends with a losing trade
\* reports the gross winning amount over the gross losing amount of its
\* trades, which is what |avg_win * wins / (avg_loss * losses)| is.
C23_ProfitFactor ==
    pc = "done" =>
        LET gross_win == realized - gross_loss
        IN  /\ (gross_win > 0 /\ gross_loss = 0)
                  => metrics.profit_factor = Inf
            /\ gross_loss < 0
                  => /\ metrics.profit_factor.den # 0
                     /\ metrics.profit_factor.num * (-gross_loss)
                          = metrics.profit_factor.den * gross_win

\* C28 as stated: a position closed by its stop or its target has an exit
\* price within the low and the high of the bar the exit is recorded on, and
\* a stop exit has no positive P&L.
C28_AttainableFills ==
    (pc \in {"loop", "final"} /\ out.exit_type \in {"sl", "tp"}) =>
        /\ cur.Low <= out.exit_price /\ out.exit_price <= cur.High
        /\ out.exit_type = "sl" => pnl[i] <= 0

\* C28 amended: a position closed by its stop or its target is filled at
\* that stop or target price, which the bar has reached or passed (long: low
\* <= stop, high >= target; short: high >= stop, low <= target), and a stop
\* exit has no positive P&L exactly when the entry price is not beyond the
\* stop (long: entry >= stop; short: entry <= stop).
C28_FillsAtLevel ==
    [][(pc = "loop" /\ position # 0 /\ out'.exit_type \in {"sl", "tp"}) =>
         LET level == IF out'.exit_type = "sl" THEN sl_price ELSE tp_price
         IN  /\ level # None
             /\ out'.exit_price = level
             /\ (position = 1 /\ out'.exit_type = "sl") => cur'.Low <= level
             /\ (position = 1 /\ out'.exit_type = "tp") => cur'.High >= level
             /\ (position = -1 /\ out'.exit_type = "sl") => cur'.High >= level
             /\ (position = -1 /\ out'.exit_type = "tp") => cur'.Low <= level
             /\ out'.exit_type = "sl" =>
                  (pnl'[i'] <= 0 <=> IF position = 1 THEN entry_price >= level
                                                     ELSE entry_price <= level)
      ]_vars

\* a stop exit above the high of its bar, with a positive P&L: the long was
\* entered on a bar that opened below the signal's stop
C28_Witness ==
    /\ pc \in {"loop", "final"} /\ out.exit_type = "sl"
    /\ out.exit_price > cur.High /\ pnl[i] > 0

\* --------------------------------------------------- claims on Strategy.run

\* the symbols of the signals in a list of signals
SignalSymbols(list) == {list[k] : k \in DOMAIN list}

\* C22: when an active strategy runs with room under both position limits,
\* a symbol with missing or too-short data, or one whose signal generation
\* raises, is the only one omitted: every other symbol whose frame yields a
\* signal has its signal in the list run returns.
C22_PerSymbolIsolation ==
    (/\ pc = "run_returned"
     /\ is_active
     /\ ~CheckPositionLimits(positions, max_open_positions)) =>
        \A s \in Symbols :
            (/\ market_data[s] = "signal"
             /\ ~CheckSymbolPositionLimits(positions, s,
                                           max_open_positions_per_symbol)) =>
                s \in SignalSymbols(run_result)

\* what run does under the position limits of the snapshot: no signal is
\* generated for a symbol at its own limit, and none at all once the total
\* is at max_open_positions
LimitsGate ==
    /\ \A s \in Symbols :
         positions[s] >= max_open_positions_per_symbol
            => s \notin called /\ s \notin SignalSymbols(run_result)
    /\ Sum(positions, Symbols) >= max_open_positions
            => called = {} /\ run_result = << >>

C30_PositionLimit ==
    (pc = "run_returned" /\ Sum(positions, Symbols) <= max_open_positions) =>
        Len(run_result) + Sum(positions, Symbols) <= max_open_positions

\* ------------------------------------------------------ claims on MarketData

\* C24: after any sequence of update calls the stored series has ascending
\* timestamps, none twice, and holds for every timestamp handed over the bar
\* most recently supplied for it.
C24_SeriesOrdered ==
    /\ Ordered(data)
    /\ \A t \in Timestamps :
         supplied[t] # "" =>
            \E k \in DOMAIN data : data[k] = [timestamp |-> t, bar |-> supplied[t]]

\* ------------------------------------------------ claims on the trailing stop

\* C26: a call made with a positive current_stop returns a stop that is not
\* below it for a buy and not above it for a sell, whatever the current price
\* and the method are.
C26_Ratchet ==
    [][(current_stop # None /\ current_stop > 0
          /\ trail_calls' = trail_calls + 1) =>
            /\ direction = "buy" => current_stop' >= current_stop
            /\ direction = "sell" => current_stop' <= current_stop
      ]_vars

\* the stop of a buy was trailed up and then held against a price that fell
\* below it
C26_Witness ==
    /\ direction = "buy" /\ method = "fixed_pips"
    /\ trail_calls >= 2
    /\ current_stop > 100 * trail_entry
    /\ current_stop > 100 * current_price

====
